---- MODULE Spec2Model ----
(***************************************************************************)
(* A model of the scraping pipeline of src/scraper.py (class WebScraper):  *)
(* the three source pipelines scrape_products, scrape_books and            *)
(* scrape_films, the item validators, the skip-rate gate, the              *)
(* normalisation of dimension names into surrogate codes, the product      *)
(* detail enricher, run_all and to_dataframes.                             *)
(*                                                                         *)
(* A pipeline step is the code between two awaits: the answer of a fetch   *)
(* is the input of the step, drawn from a finite alphabet of pages.  HTML  *)
(* is modelled by what the selectors of the code find in it.  Prices are   *)
(* in cents (0.01 is 1).  uuid4() is a per-pipeline counter of fresh ids.  *)
(*                                                                         *)
(* Spec is main(): run_all gathering the three pipelines, then             *)
(* to_dataframes.  SpecOne is one pipeline awaited alone, over the full    *)
(* alphabet of its pages.  SpecUnit is a validator or the gate called      *)
(* alone on arguments of the caller.                                       *)
(***************************************************************************)
EXTENDS Integers, Sequences, FiniteSets, TLC

\* ------------------------------------------------------------- bounds
\* containers the products or the books source serves in all, over its pages,
\* when its pipeline is awaited alone
MaxItems == 3
\* containers (films) each source serves in all when the three pipelines run
\* together under run_all
MaxItemsAll == 1
\* films the films source serves in all, over its years, when its pipeline is
\* awaited alone
MaxFilms == 2
\* largest found count the skip-rate gate is called with outside a pipeline
MaxFound == 100
\* the items a source serves in a run over all of its pages: one more than
\* max_pages
MaxLong == 51

\* ------------------------------------------------------------- values
\* Python None / JSON null, and a key that is missing from a dict
None == "<None>"
Absent == "<absent>"
\* "no record": the None of an extractor, the empty list of the service
NoRecord == [none |-> TRUE]
\* a container without any a[href*="/product/"]
NoLink == "<nolink>"

Get(v, default) == IF v = Absent THEN default ELSE v
Truthy(v) == v \notin {None, Absent, ""}

\* ------------------------------------------------------------- str methods
LowerChar(c) ==
  CASE c = "A" -> "a" [] c = "B" -> "b" [] c = "C" -> "c" [] c = "D" -> "d"
    [] c = "E" -> "e" [] c = "F" -> "f" [] c = "G" -> "g" [] c = "H" -> "h"
    [] c = "I" -> "i" [] c = "J" -> "j" [] c = "K" -> "k" [] c = "L" -> "l"
    [] c = "M" -> "m" [] c = "N" -> "n" [] c = "O" -> "o" [] c = "P" -> "p"
    [] c = "Q" -> "q" [] c = "R" -> "r" [] c = "S" -> "s" [] c = "T" -> "t"
    [] c = "U" -> "u" [] c = "V" -> "v" [] c = "W" -> "w" [] c = "X" -> "x"
    [] c = "Y" -> "y" [] c = "Z" -> "z" [] OTHER -> c

RECURSIVE lower(_)
lower(s) ==
  IF s = "" THEN "" ELSE LowerChar(SubSeq(s, 1, 1)) \o lower(SubSeq(s, 2, Len(s)))

RECURSIVE lstrip(_)
lstrip(s) ==
  IF s # "" /\ SubSeq(s, 1, 1) = " " THEN lstrip(SubSeq(s, 2, Len(s))) ELSE s

RECURSIVE rstrip(_)
rstrip(s) ==
  IF s # "" /\ SubSeq(s, Len(s), Len(s)) = " " THEN rstrip(SubSeq(s, 1, Len(s) - 1)) ELSE s

strip(s) == rstrip(lstrip(s))

\* Python's `t in s` on two strings
Contains(s, t) ==
  \E i \in 1..(Len(s) - Len(t) + 1) : SubSeq(s, i, i + Len(t) - 1) = t

\* any(word in s for word in words)
AnyIn(words, s) == \E k \in 1..Len(words) : Contains(s, words[k])

\* ------------------------------------------------------------- validators
nav_keywords ==
  <<"docs", "api", "login", "cart", "testimonials", "file download",
    "graphql", "sitemap", "blog", "github">>

\* the validator with `price < 0` for `price <= 0`
_is_valid_product_nonneg(item) ==
  IF item.name = None THEN "raise"
  ELSE LET name == strip(Get(item.name, ""))
           price == IF item.price_t = "absent" THEN 0 ELSE item.price
           category == IF Truthy(item.category) THEN lower(strip(item.category)) ELSE ""
       IN  IF name = "" THEN "reject"
           ELSE IF item.price_t = "null" THEN "raise"
           ELSE IF price < 0 THEN "reject"
           ELSE IF AnyIn(nav_keywords, lower(name)) THEN "reject"
           ELSE IF category # "" /\ category = "unknown" THEN "reject"
           ELSE "accept"

\* A candidate product is [name, price_t, price, category, product_id]:
\* price_t is "num" (price holds the cents), "null" or "absent".
\* The result is "accept", "reject", or "raise" where the Python raises.
_is_valid_product(item) ==
  IF item.name = None THEN "raise"
  ELSE
    LET name == strip(Get(item.name, ""))
        price == IF item.price_t = "absent" THEN 0 ELSE item.price
        category == IF Truthy(item.category) THEN lower(strip(item.category)) ELSE ""
    IN  IF name = "" THEN "reject"
        ELSE IF item.price_t = "null" THEN "raise"
        ELSE IF price <= 0 THEN "reject"
        ELSE IF AnyIn(nav_keywords, lower(name)) THEN "reject"
        ELSE IF category # "" /\ category = "unknown" THEN "reject"
        ELSE "accept"

\* ------------------------------------------------------------- skip-rate gate
\* the gate with `skip_rate >= 5.0` for `skip_rate > 5.0`
_check_skip_rate_inclusive(items_found, items_extracted) ==
  IF items_found = 0 THEN FALSE
  ELSE (items_found - items_extracted) * 100 >= 5 * items_found

\* TRUE when _check_skip_rate raises.  The Python compares the double
\* ((found - extracted) / found) * 100 with 5.0; for every pair of counts with
\* found below 3000 that comparison has the outcome of the exact one of the
\* rationals, (found - extracted) * 100 > 5 * found.
_check_skip_rate(items_found, items_extracted) ==
  IF items_found = 0 THEN FALSE
  ELSE (items_found - items_extracted) * 100 > 5 * items_found

\* ------------------------------------------------------------- surrogate codes
Zeros(k) == CASE k <= 0 -> "" [] k = 1 -> "0" [] k = 2 -> "00" [] OTHER -> "000"

\* f"{n:04d}"
Pad4(n) == LET s == ToString(n) IN Zeros(4 - Len(s)) \o s

\* the code numbered from the count before the insertion
Code_zero_based(prefix, n) == prefix \o "_" \o Pad4(n - 1)

\* f"{prefix}_{n:04d}"
Code(prefix, n) == prefix \o "_" \o Pad4(n)

\* A dimension dict is the sequence of its entries [cd, nm] in insertion
\* order (a Python dict keeps it); its keys are the names.
Names(dim) == {dim[k].nm : k \in 1..Len(dim)}

CodeOf(dim, name) == (CHOOSE k \in 1..Len(dim) : dim[k].nm = name)

\* normalisation without the membership test: every sighting makes an entry
Normalize_always_new(dim, name, prefix) ==
  Append(dim, [cd |-> Code(prefix, Len(dim) + 1), nm |-> name])

\* normalisation that stores the new entry over the last one
Normalize_overwriting(dim, name, prefix) ==
  IF name \in Names(dim) THEN dim
  ELSE IF dim = <<>> THEN <<[cd |-> Code(prefix, 1), nm |-> name]>>
  ELSE [dim EXCEPT ![Len(dim)] = [cd |-> Code(prefix, Len(dim)), nm |-> name]]

\* if name not in dim: dim[name] = Entry(f"{prefix}_{len(dim) + 1:04d}", name)
Normalize(dim, name, prefix) ==
  IF name \in Names(dim) THEN dim
  ELSE Append(dim, [cd |-> Code(prefix, Len(dim) + 1), nm |-> name])

\* the lookup answering the name where the code is expected
Lookup_unresolved(dim, name) == dim[CodeOf(dim, name)].nm

\* dim[name].cd
Lookup(dim, name) == dim[CodeOf(dim, name)].cd

\* ------------------------------------------------------------- state
VARIABLES
  llm_api_key,           \* self.llm_api_key is set (a credential is configured)
  \* scrape_products: its locals and the collections it writes
  p_pc, p_exc, p_err, p_page, p_found, p_extracted, p_queue, p_cur, p_uuid, p_fetches,
  products, product_categories, product_variants, product_reviews, similar_products,
  \* scrape_books
  b_pc, b_exc, b_err, b_page, b_found, b_extracted, b_queue, b_cur, b_uuid, b_fetches,
  b_cat_total,
  books, authors, book_categories, book_category_bridges,
  \* scrape_films
  f_pc, f_exc, f_err, f_year, f_found, f_extracted, f_main, f_uuid, f_fetches,
  films, directors, actors, award_categories, film_actor_bridges, film_award_bridges,
  \* run_all and its caller main()
  r_pc, r_raised, m_tables,
  \* the last call of a pure function: the function, its arguments, its result
  u_fn, u_item, u_found, u_extracted, u_res

pvars == <<p_pc, p_exc, p_err, p_page, p_found, p_extracted, p_queue, p_cur, p_uuid, p_fetches,
           products, product_categories, product_variants, product_reviews, similar_products>>
bvars == <<b_pc, b_exc, b_err, b_page, b_found, b_extracted, b_queue, b_cur, b_uuid, b_fetches,
           b_cat_total, books, authors, book_categories, book_category_bridges>>
fvars == <<f_pc, f_exc, f_err, f_year, f_found, f_extracted, f_main, f_uuid, f_fetches,
           films, directors, actors, award_categories, film_actor_bridges, film_award_bridges>>
rvars == <<r_pc, r_raised, m_tables>>
uvars == <<u_fn, u_item, u_found, u_extracted, u_res>>
vars == <<llm_api_key, pvars, bvars, fvars, rvars, uvars>>

\* what a step of one part leaves alone
PFrame == UNCHANGED <<llm_api_key, bvars, fvars, rvars, uvars>>
BFrame == UNCHANGED <<llm_api_key, pvars, fvars, rvars, uvars>>
FFrame == UNCHANGED <<llm_api_key, pvars, bvars, rvars, uvars>>
RFrame == UNCHANGED <<llm_api_key, pvars, bvars, fvars, uvars>>
UFrame == UNCHANGED <<llm_api_key, pvars, bvars, fvars, rvars>>

\* ------------------------------------------------------------- products: extraction
max_pages == 50

\* str(uuid.uuid4()) of the products pipeline: the n-th fresh identifier
PUuid(n) == "uuid-p" \o ToString(n)

\* A product container is what the selectors find in it:
\*   in_nav      it has a nav, header or footer parent
\*   link        the id in its a[href*="/product/"] ("" when the href has none),
\*               NoLink without such an anchor
\*   text        container.get_text()
\*   name        text of the name element, "" without one
\*   price_ok    float() of the price text succeeds; price its value in cents
\*   category    text of the category element, None without one
\*   data_id     the data-id attribute, Absent without one
\*   llm         what the extraction service returns for it: an item or NoRecord
KeepContainer(c) ==
  /\ ~c.in_nav
  /\ c.link # NoLink
  /\ ~(Len(strip(lower(c.text))) < 20 /\ AnyIn(nav_keywords, lower(c.text)))

\* lines 476-496
FilterContainers(cs) == SelectSeq(cs, KeepContainer)

\* The candidate of the CSS selectors, or NoRecord; uuid is the fresh id at hand.
_extract_product_css(c, uuid) ==
  IF ~c.price_ok THEN NoRecord
  ELSE
    LET product_id == IF c.link # "" /\ c.link # NoLink THEN c.link
                      ELSE Get(c.data_id, uuid)
    IN  IF c.name # ""
        THEN [name |-> c.name, price_t |-> "num", price |-> c.price,
              category |-> IF c.category # None /\ lower(c.category) # "unknown"
                           THEN c.category ELSE None,
              product_id |-> product_id]
        ELSE NoRecord

Answered(answer) == answer # NoRecord

\* the helper with the credential check of lines 330-331 left out
_extract_items_with_llm_unguarded(answers, key) ==
  [items |-> SelectSeq(answers, Answered), calls |-> Len(answers)]

\* lines 327-415: answers[k] is what the service finds in section k (NoRecord
\* for nothing usable).  items is the returned list, calls the number of
\* extraction calls issued (one crawler.arun per section, line 358).
_extract_items_with_llm(answers, key) ==
  IF ~key THEN [items |-> <<>>, calls |-> 0]
  ELSE [items |-> SelectSeq(answers, Answered), calls |-> Len(answers)]

\* line 515: the service is asked when the CSS candidate is missing
ProductAsksService(c, uuid) == _extract_product_css(c, uuid) = NoRecord

\* lines 511-520: the CSS candidate, else the first result of the service
SelectProduct(c, uuid, key) ==
  LET css == _extract_product_css(c, uuid)
      llm_results == _extract_items_with_llm(<<c.llm>>, key).items
  IN  IF css # NoRecord THEN css
      ELSE IF llm_results # <<>> THEN llm_results[1]
      ELSE NoRecord

\* lines 507-527: the loop over the containers of a page.  acc is
\* [data, failed, raised, uuid]; a validator that raises leaves the loop.
RECURSIVE ExtractProducts(_, _, _, _)
ExtractProducts(cs, i, key, acc) ==
  IF i > Len(cs) \/ acc.raised THEN acc
  ELSE
    LET fresh == cs[i].link = "" \/ cs[i].link = NoLink
        pd == SelectProduct(cs[i], PUuid(acc.uuid), key)
        v == IF pd = NoRecord THEN "none" ELSE _is_valid_product(pd)
    IN  ExtractProducts(cs, i + 1, key,
          [data |-> IF v = "accept" THEN Append(acc.data, pd) ELSE acc.data,
           failed |-> IF v = "reject" THEN Append(acc.failed, pd) ELSE acc.failed,
           raised |-> v = "raise",
           uuid |-> IF fresh /\ cs[i].price_ok THEN acc.uuid + 1 ELSE acc.uuid])

\* lines 548-558
InferCategory(name) ==
  LET name_lower == lower(name)
  IN  IF AnyIn(<<"chocolate", "candy", "food", "snack">>, name_lower) THEN "Food & Beverages"
      ELSE IF AnyIn(<<"potion", "energy", "drink">>, name_lower) THEN "Beverages"
      ELSE IF AnyIn(<<"game", "toy", "collectible">>, name_lower) THEN "Entertainment"
      ELSE "General"

\* ------------------------------------------------------------- products: enrichment
\* A detail answer is [kind, llm, css_variants, css_reviews]: kind "raise"
\* when the fetch raises, llm the parsed extracted_content
\* ([description, variants, reviews, similar], NoRecord for none or {}),
\* css_* what the fallback selectors find in result.html.
\* A variant is [size, flavor, price_modifier], a review [rating, text, reviewer],
\* a similar product [product_id].

\* lines 662-739: the dict `data`, NoRecord when it stays empty
DetailData(d) ==
  LET data == d.llm
      novr == data = NoRecord \/ (data.variants = <<>> /\ data.reviews = <<>>)
  IN  IF ~novr THEN data
      ELSE IF d.css_variants = <<>> /\ d.css_reviews = <<>> THEN data
      ELSE [description |-> IF data = NoRecord THEN "" ELSE data.description,
            variants |-> d.css_variants,
            reviews |-> d.css_reviews,
            similar |-> IF data = NoRecord THEN <<>> ELSE data.similar]

\* lines 742-745: the first product with this inv_id gets the description
SetDescription(prods, inv_id, desc) ==
  IF \E k \in 1..Len(prods) : prods[k].inv_id = inv_id
  THEN LET k == CHOOSE j \in 1..Len(prods) :
                  /\ prods[j].inv_id = inv_id
                  /\ \A h \in 1..(j - 1) : prods[h].inv_id # inv_id
       IN  [prods EXCEPT ![k].desc_txt = desc]
  ELSE prods

\* lines 748-755 (idx is 0-based)
NewVariants(inv_id, vs) ==
  [k \in 1..Len(vs) |->
     [var_id |-> inv_id \o "_VAR_" \o ToString(k - 1), inv_id |-> inv_id,
      sz_cd |-> vs[k].size, flv_cd |-> vs[k].flavor, prc_mod |-> vs[k].price_modifier]]

\* ProductReview.rtg_val without its bounds
RatingOk_unbounded(r) == r = r

\* ProductReview.rtg_val: Field(ge=1, le=5)
RatingOk(r) == r >= 1 /\ r <= 5

\* the reviews before the first one pydantic rejects
ValidReviews(rs) ==
  LET bad == {k \in 1..Len(rs) : ~RatingOk(rs[k].rating)}
  IN  IF bad = {} THEN Len(rs) ELSE (CHOOSE k \in bad : \A j \in bad : k <= j) - 1

\* lines 758-766
NewReviews(inv_id, rs) ==
  [k \in 1..ValidReviews(rs) |->
     [rev_id |-> inv_id \o "_REV_" \o ToString(k - 1), inv_id |-> inv_id,
      rtg_val |-> rs[k].rating, rev_txt |-> rs[k].text, rev_nm |-> rs[k].reviewer]]

\* lines 769-776; the reviews loop raising skips it
NewSimilar(inv_id, data, uuid) ==
  IF ValidReviews(data.reviews) < Len(data.reviews) THEN <<>>
  ELSE [k \in 1..Len(data.similar) |->
          [sim_id |-> PUuid(uuid + 2 * k - 1), inv_id |-> inv_id,
           sim_inv_id |-> Get(data.similar[k].product_id, PUuid(uuid + 2 * k - 2))]]

\* ------------------------------------------------------------- products: steps
\* the end of scrape_products with the gate's error logged and not re-raised
PFinish_swallowed(found, extracted) ==
  /\ p_pc' = "done"
  /\ p_exc' = IF _check_skip_rate(found, extracted) THEN "gate" ELSE "none"

\* the skip-rate check after the page loop, lines 591-596
PFinish(found, extracted) ==
  /\ p_pc' = IF _check_skip_rate(found, extracted) THEN "raised" ELSE "done"
  /\ p_exc' = IF _check_skip_rate(found, extracted) THEN "gate" ELSE "none"

\* the break of the page loop with the gate fed the counts of the pages
\* before the one that failed
PBreak_excluding(found, extracted) ==
  /\ p_err' = TRUE
  /\ PFinish(p_found, p_extracted)

\* `except Exception: break` of the page loop, lines 587-589
PBreak(found, extracted) ==
  /\ p_err' = TRUE
  /\ PFinish(found, extracted)

\* the page loop as `while True`
PContinue_uncapped(queue) ==
  /\ p_queue' = queue
  /\ p_found' = p_found
  /\ p_extracted' = p_extracted
  /\ p_err' = p_err
  /\ IF queue # <<>>
     THEN /\ p_pc' = "items"
          /\ UNCHANGED <<p_exc, p_page, p_fetches>>
     ELSE /\ p_page' = p_page + 1
          /\ p_pc' = "fetch"
          /\ p_fetches' = p_fetches + 1
          /\ p_exc' = p_exc

\* the items of the page left to process, else `page += 1` and the loop test
PContinue(queue) ==
  /\ p_queue' = queue
  /\ p_found' = p_found
  /\ p_extracted' = p_extracted
  /\ p_err' = p_err
  /\ IF queue # <<>>
     THEN /\ p_pc' = "items"
          /\ UNCHANGED <<p_exc, p_page, p_fetches>>
     ELSE /\ p_page' = p_page + 1
          /\ IF p_page + 1 <= max_pages
             THEN /\ p_pc' = "fetch"
                  /\ p_fetches' = p_fetches + 1
                  /\ p_exc' = p_exc
             ELSE /\ PFinish(p_found, p_extracted)
                  /\ p_fetches' = p_fetches

\* scrape_products is scheduled and opens the crawler, lines 441-449
PStart ==
  /\ p_pc = "idle"
  /\ p_pc' = "fetch"
  /\ p_page' = 1
  /\ p_fetches' = p_fetches + 1
  /\ UNCHANGED <<p_exc, p_err, p_found, p_extracted, p_queue, p_cur, p_uuid,
                 products, product_categories, product_variants, product_reviews,
                 similar_products>>
  /\ PFrame

\* AsyncWebCrawler fails to start: the outer except re-raises, lines 594-596
PCrawlerFail ==
  /\ p_pc = "idle"
  /\ p_pc' = "raised"
  /\ p_exc' = "crawler"
  /\ UNCHANGED <<p_err, p_page, p_found, p_extracted, p_queue, p_cur, p_uuid, p_fetches,
                 products, product_categories, product_variants, product_reviews,
                 similar_products>>
  /\ PFrame

\* the listing fetch raises (caught by the page loop), or answers without html
PFetchFail ==
  /\ p_pc = "fetch"
  /\ \E raised \in BOOLEAN :
       /\ p_err' = (p_err \/ raised)
       /\ PFinish(p_found, p_extracted)
  /\ UNCHANGED <<p_page, p_found, p_extracted, p_queue, p_cur, p_uuid, p_fetches,
                 products, product_categories, product_variants, product_reviews,
                 similar_products>>
  /\ PFrame

\* the listing fetch answers a page: lines 460-540
PFetchPage(Kinds, Budget) ==
  /\ p_pc = "fetch"
  /\ \E raw \in UNION {[1..m -> Kinds] : m \in 0..(Budget - p_found)} :
       LET cs == FilterContainers(raw)
           found == p_found + Len(cs)
           r == ExtractProducts(cs, 1, llm_api_key,
                  [data |-> <<>>, failed |-> <<>>, raised |-> FALSE, uuid |-> p_uuid])
       IN  IF cs = <<>>
           THEN /\ PFinish(p_found, p_extracted)
                /\ UNCHANGED <<p_err, p_found, p_extracted, p_queue, p_uuid>>
           ELSE /\ p_found' = found
                /\ p_uuid' = r.uuid
                /\ IF r.raised
                   THEN /\ PBreak(found, p_extracted)
                        /\ UNCHANGED <<p_extracted, p_queue>>
                   ELSE IF r.data = <<>>
                   THEN /\ PFinish(found, p_extracted)
                        /\ UNCHANGED <<p_err, p_extracted, p_queue>>
                   ELSE /\ p_extracted' = p_extracted + Len(r.data)
                        /\ p_queue' = r.data
                        /\ p_pc' = "items"
                        /\ UNCHANGED <<p_err, p_exc>>
  /\ UNCHANGED <<p_page, p_cur, p_fetches,
                 products, product_categories, product_variants, product_reviews,
                 similar_products>>
  /\ PFrame

\* Product(...): pydantic rejects inv_id=None (str is required)
ProductOk(product) == product.inv_id # None

\* one round of `for item in products_data`, lines 543-583, up to the await of
\* the enricher (which returns at once without a credential, lines 650-652)
PItem ==
  /\ p_pc = "items"
  /\ LET item == Head(p_queue)
         product_id == Get(item.product_id, PUuid(p_uuid))
         category_name == IF Truthy(item.category) THEN item.category
                          ELSE InferCategory(Get(item.name, ""))
         cats == Normalize(product_categories, category_name, "CAT")
         product == [inv_id |-> product_id, inv_nm |-> Get(item.name, ""),
                     unit_prc |-> item.price, cat_cd |-> Lookup(cats, category_name),
                     desc_txt |-> "", lnk_id |-> PUuid(p_uuid + 1)]
     IN  /\ product_categories' = cats
         /\ p_uuid' = p_uuid + 2
         /\ IF ~ProductOk(product)
            THEN /\ PBreak(p_found, p_extracted)
                 /\ UNCHANGED <<p_page, p_found, p_extracted, p_queue, p_cur, p_fetches, products>>
            ELSE /\ products' = Append(products, product)
                 /\ IF llm_api_key
                    THEN /\ p_pc' = "detail"
                         /\ p_cur' = product_id
                         /\ p_fetches' = p_fetches + 1
                         /\ p_queue' = Tail(p_queue)
                         /\ UNCHANGED <<p_exc, p_err, p_page, p_found, p_extracted>>
                    ELSE /\ PContinue(Tail(p_queue))
                         /\ p_cur' = p_cur
  /\ UNCHANGED <<product_variants, product_reviews, similar_products>>
  /\ PFrame

\* the enricher without its try/except: a detail fetch that raises reaches the
\* page loop, whose except breaks
PDetail_propagating(Answers) ==
  /\ p_pc = "detail"
  /\ \E d \in Answers :
       LET data == IF d.kind = "raise" THEN NoRecord ELSE DetailData(d)
       IN  /\ IF data = NoRecord
              THEN UNCHANGED <<p_uuid, products, product_variants, product_reviews,
                               similar_products>>
              ELSE /\ products' = SetDescription(products, p_cur, data.description)
                   /\ product_variants' = product_variants \o NewVariants(p_cur, data.variants)
                   /\ product_reviews' = product_reviews \o NewReviews(p_cur, data.reviews)
                   /\ similar_products' = similar_products \o NewSimilar(p_cur, data, p_uuid)
                   /\ p_uuid' = p_uuid + 2 * Len(NewSimilar(p_cur, data, p_uuid))
           /\ IF d.kind = "raise"
              THEN /\ PBreak(p_found, p_extracted)
                   /\ UNCHANGED <<p_page, p_found, p_extracted, p_queue, p_fetches>>
              ELSE PContinue(p_queue)
  /\ UNCHANGED <<p_cur, product_categories>>
  /\ PFrame

\* the detail fetch answers: _scrape_product_detail from line 662 on
PDetail(Answers) ==
  /\ p_pc = "detail"
  /\ \E d \in Answers :
       LET data == IF d.kind = "raise" THEN NoRecord ELSE DetailData(d)
       IN  IF data = NoRecord
           THEN UNCHANGED <<p_uuid, products, product_variants, product_reviews,
                            similar_products>>
           ELSE /\ products' = SetDescription(products, p_cur, data.description)
                /\ product_variants' = product_variants \o NewVariants(p_cur, data.variants)
                /\ product_reviews' = product_reviews \o NewReviews(p_cur, data.reviews)
                /\ similar_products' = similar_products \o NewSimilar(p_cur, data, p_uuid)
                /\ p_uuid' = p_uuid + 2 * Len(NewSimilar(p_cur, data, p_uuid))
  /\ PContinue(p_queue)
  /\ UNCHANGED <<p_cur, product_categories>>
  /\ PFrame

\* ------------------------------------------------------------- products: pages
Container(link, text, name, price, category, llm) ==
  [in_nav |-> FALSE, link |-> link, text |-> text, name |-> name, price_ok |-> TRUE,
   price |-> price, category |-> category, data_id |-> Absent, llm |-> llm]

Item(name, price_t, price, category, product_id) ==
  [name |-> name, price_t |-> price_t, price |-> price, category |-> category,
   product_id |-> product_id]

\* a product with a category
PC_Widget == Container("1", "Widget 9.99 Gadgets, a fine widget", "Widget", 999, "Gadgets", NoRecord)
\* a product without a category element: the category is inferred from its name
PC_Potion == Container("2", "Energy Potion 0.01, gives energy", "Energy Potion", 1, None, NoRecord)
\* no price element: price 0
PC_Free == Container("3", "Gizmo, out of stock for the season", "Gizmo", 0, "Gadgets", NoRecord)
\* no name element; the service finds an empty name, too
PC_NoName == Container("4", "5.00 only this week, do not miss it", "", 500, None,
                       Item("", "num", 500, Absent, Absent))
\* no name element; the service finds the product, but no id (null)
PC_LlmNullId == Container("5", "5.00 only this week, do not miss it", "", 500, None,
                          Item("Bolt", "num", 250, "Tools", None))
\* no name element; the service finds the product and its category "Unknown"
PC_LlmUnknown == Container("6", "2.50 only this week, do not miss it", "", 250, None,
                           Item("Nut", "num", 250, "Unknown", "6"))
\* no name element; the service answers a null name
PC_LlmNullName == Container("7", "2.50 only this week, do not miss it", "", 250, None,
                            Item(None, "num", 250, Absent, "7"))
\* a link of the navigation bar
PC_Nav == [Container("8", "Cart", "Cart", 0, None, NoRecord) EXCEPT !.in_nav = TRUE]
\* href "/product/" without an id, and a data-id attribute
PC_DataId == [Container("", "Gadget 3.00 Gadgets, a fine gadget", "Gadget", 300, "Gadgets", NoRecord)
                EXCEPT !.data_id = "d9"]
\* href "/product/" without an id and no data attribute: a fresh uuid
PC_Fresh == Container("", "Gadget 3.00 Gadgets, a fine gadget", "Gadget", 300, "Gadgets", NoRecord)

ProductKinds ==
  {PC_Widget, PC_Potion, PC_Free, PC_NoName, PC_LlmNullId, PC_LlmUnknown,
   PC_LlmNullName, PC_Nav, PC_DataId, PC_Fresh}

Variant1 == [size |-> "L", flavor |-> "", price_modifier |-> 0]
Review5 == [rating |-> 5, text |-> "Good", reviewer |-> "Ann"]
Review10 == [rating |-> 10, text |-> "Top", reviewer |-> "Anonymous"]

D_Raise == [kind |-> "raise", llm |-> NoRecord, css_variants |-> <<>>, css_reviews |-> <<>>]
D_Empty == [kind |-> "ok", llm |-> NoRecord, css_variants |-> <<>>, css_reviews |-> <<>>]
D_Llm == [kind |-> "ok",
          llm |-> [description |-> "A fine product", variants |-> <<Variant1>>,
                   reviews |-> <<Review5>>, similar |-> <<[product_id |-> "2"]>>],
          css_variants |-> <<>>, css_reviews |-> <<>>]
D_Css == [kind |-> "ok", llm |-> NoRecord, css_variants |-> <<Variant1>>,
          css_reviews |-> <<Review5, Review10>>]

DetailAnswers == {D_Raise, D_Empty, D_Llm, D_Css}

\* ------------------------------------------------------------- books: extraction
base_url == "https://books.toscrape.com"

\* str(uuid.uuid4()) of the books pipeline
BUuid(n) == "uuid-b" \o ToString(n)

StartsWith(s, t) == Len(s) >= Len(t) /\ SubSeq(s, 1, Len(t)) = t

\* lines 294-307: the rating from the classes of the star-rating element
\* ("" without such an element)
StarRating(classes) ==
  IF classes = "" THEN 3
  ELSE IF Contains(classes, "One") \/ Contains(classes, "1") THEN 1
  ELSE IF Contains(classes, "Two") \/ Contains(classes, "2") THEN 2
  ELSE IF Contains(classes, "Three") \/ Contains(classes, "3") THEN 3
  ELSE IF Contains(classes, "Four") \/ Contains(classes, "4") THEN 4
  ELSE IF Contains(classes, "Five") \/ Contains(classes, "5") THEN 5
  ELSE 3

\* A book container is what the selectors find in it: title ("" without a
\* title), price (the number in the price text), href ("" without a link),
\* availability, classes (of the star-rating element), and llm: what the
\* extraction service returns for it, an item or NoRecord.
\* A candidate book is [title, price, author, categories, availability,
\* rating_t, rating, description, book_url]; rating_t is "int" or "none".
_extract_book_css(c) ==
  IF c.title # ""
  THEN [title |-> c.title, price |-> c.price, author |-> None, categories |-> <<>>,
        availability |-> c.availability, rating_t |-> "int",
        rating |-> StarRating(c.classes), description |-> "",
        book_url |-> IF StartsWith(c.href, "/") THEN base_url \o c.href ELSE c.href]
  ELSE NoRecord

\* lines 851-871: the service is asked whenever the author is missing, which
\* the CSS candidate always is; of its answer only author and categories are
\* merged into a CSS candidate, the service's value first
SelectBook(c, key) ==
  LET css == _extract_book_css(c)
      llm_results == _extract_items_with_llm(<<c.llm>>, key).items
      llm == IF llm_results # <<>> THEN llm_results[1] ELSE NoRecord
  IN  IF llm = NoRecord THEN css
      ELSE IF css # NoRecord
      THEN [css EXCEPT !.author = IF Truthy(llm.author) THEN llm.author ELSE css.author,
                       !.categories = IF llm.categories # <<>> THEN llm.categories
                                      ELSE css.categories]
      ELSE llm

\* the validator comparing the author with "unknown" without lower-casing it
_is_valid_book_case_sensitive(item) ==
  LET title == IF Truthy(item.title) THEN strip(item.title) ELSE ""
      author == IF Truthy(item.author) THEN strip(item.author) ELSE ""
  IN  IF title = "" THEN "reject"
      ELSE IF author # "" /\ author = "unknown" THEN "reject"
      ELSE "accept"

\* lines 163-176: "accept" or "reject"
_is_valid_book(item) ==
  LET title == IF Truthy(item.title) THEN strip(item.title) ELSE ""
      author == IF Truthy(item.author) THEN strip(item.author) ELSE ""
  IN  IF title = "" THEN "reject"
      ELSE IF author # "" /\ lower(author) = "unknown" THEN "reject"
      ELSE "accept"

\* lines 847-878
RECURSIVE ExtractBooks(_, _, _, _)
ExtractBooks(cs, i, key, acc) ==
  IF i > Len(cs) THEN acc
  ELSE
    LET bd == SelectBook(cs[i], key)
        v == IF bd = NoRecord THEN "none" ELSE _is_valid_book(bd)
    IN  ExtractBooks(cs, i + 1, key,
          [data |-> IF v = "accept" THEN Append(acc.data, bd) ELSE acc.data,
           failed |-> IF v = "reject" THEN Append(acc.failed, bd) ELSE acc.failed])

\* ------------------------------------------------------------- books: detail page
\* sample_authors[md5(title) % 20], lines 1049-1060, for the titles of the model
SampleAuthor(title) ==
  CASE title = "Dune" -> "Amanda Davis"
    [] title = "Emma" -> "Matthew Moore"
    [] title = "Ulysses" -> "Kevin Martin"
    [] title = "Sharp Objects" -> "Brian Lewis"
    [] OTHER -> "Daniel Wilson"

IsUpper(c) == LowerChar(c) # c

\* lines 1029-1039: is_valid of an author name found on the detail page
AuthorNameValid(name) ==
  /\ Len(name) >= 3
  /\ Len(name) <= 50
  /\ IsUpper(SubSeq(name, 1, 1))
  /\ ~\E pat \in {"a ", "an ", "the ", "this ", "that ", "your ", "my ", "our ", "their "} :
        StartsWith(lower(name), pat)
  /\ lower(name) \notin {"book", "novel", "story", "tale", "collection", "anthology", "series"}

\* A detail answer is [kind, author, crumbs, description]: kind "raise",
\* "nohtml" or "html"; author the name methods 1 to 4 find (None when none
\* does); crumbs the category names of the breadcrumb, category link or
\* table; description the text of the description element (None without).
\* lines 917-1061: the author after the detail page
DetailAuthor(author_name, d, title) ==
  IF Truthy(author_name) THEN author_name
  ELSE IF d.author # None /\ strip(d.author) # "" /\ AuthorNameValid(strip(d.author))
       THEN strip(d.author)
  ELSE SampleAuthor(title)

\* lines 1063-1088
DetailCategories(categories, d) ==
  IF categories = <<>> THEN d.crumbs ELSE categories

\* ------------------------------------------------------------- books: steps
\* float(price_str) in cents, 0 on ValueError; lines 1119-1123
PriceCents(price_str) ==
  CASE price_str = "51.77" -> 5177
    [] price_str = "47.82" -> 4782
    [] price_str = "13.99" -> 1399
    [] OTHER -> 0

\* lines 1126-1139: an int rating is kept as it is, None gives the default
ParseRating(item) == IF item.rating_t = "int" THEN item.rating ELSE 3

\* Book(...): rtg_val has ge=1, le=5; avail_sts and desc_txt are str
BookOk(book) ==
  /\ book.rtg_val >= 1 /\ book.rtg_val <= 5
  /\ book.avail_sts # None
  /\ book.desc_txt # None

\* lines 1155-1167: acc is [dim, bridges]
RECURSIVE LinkCategories(_, _, _, _)
LinkCategories(categories, i, book_id, acc) ==
  IF i > Len(categories) THEN acc
  ELSE
    LET dim == Normalize(acc.dim, categories[i], "BK_CAT")
    IN  LinkCategories(categories, i + 1, book_id,
          [dim |-> dim,
           bridges |-> Append(acc.bridges,
                         [bk_id |-> book_id, bk_cat_cd |-> Lookup(dim, categories[i])])])

BFinish(found, extracted) ==
  /\ b_pc' = IF _check_skip_rate(found, extracted) THEN "raised" ELSE "done"
  /\ b_exc' = IF _check_skip_rate(found, extracted) THEN "gate" ELSE "none"

\* `except Exception: break` of the page loop, lines 1171-1173
BBreak(found, extracted) ==
  /\ b_err' = TRUE
  /\ BFinish(found, extracted)

BContinue(queue) ==
  /\ b_queue' = queue
  /\ b_found' = b_found
  /\ b_extracted' = b_extracted
  /\ b_err' = b_err
  /\ IF queue # <<>>
     THEN /\ b_pc' = "items"
          /\ UNCHANGED <<b_exc, b_page, b_fetches>>
     ELSE /\ b_page' = b_page + 1
          /\ IF b_page + 1 <= max_pages
             THEN /\ b_pc' = "fetch"
                  /\ b_fetches' = b_fetches + 1
                  /\ b_exc' = b_exc
             ELSE /\ BFinish(b_found, b_extracted)
                  /\ b_fetches' = b_fetches

\* lines 1098-1167: the book of an accepted item, once its author, categories
\* and description are known; then the next item or the next page.  u is the
\* index of the next fresh uuid.
BFinalize(item, book_id, author0, categories0, description, queue, u) ==
  LET author_name == IF Truthy(author0) THEN author0 ELSE "Not Specified"
      categories == IF categories0 # <<>> THEN categories0 ELSE <<"Fiction">>
      auths == Normalize(authors, author_name, "AUTH")
      book == [bk_id |-> book_id, bk_ttl |-> item.title,
               unit_prc |-> PriceCents(Get(item.price, "0")),
               auth_cd |-> Lookup(auths, author_name),
               avail_sts |-> Get(item.availability, "In Stock"),
               rtg_val |-> ParseRating(item),
               desc_txt |-> Get(description, ""),
               lnk_id |-> BUuid(u)]
      linked == LinkCategories(categories, 1, book_id,
                  [dim |-> book_categories, bridges |-> book_category_bridges])
  IN  /\ authors' = auths
      /\ b_cat_total' = b_cat_total + Len(categories)
      /\ IF item.price = None
         THEN \* None.replace(...) raises AttributeError
              /\ BBreak(b_found, b_extracted)
              /\ b_uuid' = u
              /\ UNCHANGED <<b_page, b_found, b_extracted, b_queue, b_fetches,
                             books, book_categories, book_category_bridges>>
         ELSE IF ~BookOk(book)
         THEN /\ BBreak(b_found, b_extracted)
              /\ b_uuid' = u + 1
              /\ UNCHANGED <<b_page, b_found, b_extracted, b_queue, b_fetches,
                             books, book_categories, book_category_bridges>>
         ELSE /\ books' = Append(books, book)
              /\ book_categories' = linked.dim
              /\ book_category_bridges' = linked.bridges
              /\ b_uuid' = u + 1
              /\ BContinue(queue)

BStart ==
  /\ b_pc = "idle"
  /\ b_pc' = "fetch"
  /\ b_page' = 1
  /\ b_fetches' = b_fetches + 1
  /\ UNCHANGED <<b_exc, b_err, b_found, b_extracted, b_queue, b_cur, b_uuid, b_cat_total,
                 books, authors, book_categories, book_category_bridges>>
  /\ BFrame

\* AsyncWebCrawler fails to start: the outer except re-raises, lines 1178-1180
BCrawlerFail ==
  /\ b_pc = "idle"
  /\ b_pc' = "raised"
  /\ b_exc' = "crawler"
  /\ UNCHANGED <<b_err, b_page, b_found, b_extracted, b_queue, b_cur, b_uuid, b_fetches,
                 b_cat_total, books, authors, book_categories, book_category_bridges>>
  /\ BFrame

\* the listing fetch raises (caught by the page loop), or answers without html
BFetchFail ==
  /\ b_pc = "fetch"
  /\ \E raised \in BOOLEAN :
       /\ b_err' = (b_err \/ raised)
       /\ BFinish(b_found, b_extracted)
  /\ UNCHANGED <<b_page, b_found, b_extracted, b_queue, b_cur, b_uuid, b_fetches,
                 b_cat_total, books, authors, book_categories, book_category_bridges>>
  /\ BFrame

\* the listing fetch answers a page: lines 828-891
BFetchPage(Kinds, Budget) ==
  /\ b_pc = "fetch"
  /\ \E cs \in UNION {[1..m -> Kinds] : m \in 0..(Budget - b_found)} :
       LET found == b_found + Len(cs)
           r == ExtractBooks(cs, 1, llm_api_key, [data |-> <<>>, failed |-> <<>>])
       IN  IF cs = <<>>
           THEN /\ BFinish(b_found, b_extracted)
                /\ UNCHANGED <<b_found, b_extracted, b_queue>>
           ELSE /\ b_found' = found
                /\ IF r.data = <<>>
                   THEN /\ BFinish(found, b_extracted)
                        /\ UNCHANGED <<b_extracted, b_queue>>
                   ELSE /\ b_extracted' = b_extracted + Len(r.data)
                        /\ b_queue' = r.data
                        /\ b_pc' = "items"
                        /\ b_exc' = b_exc
  /\ UNCHANGED <<b_err, b_page, b_cur, b_uuid, b_fetches, b_cat_total,
                 books, authors, book_categories, book_category_bridges>>
  /\ BFrame

\* one round of `for item in books_data` up to the await of the detail
\* fetch, lines 893-913; without a book_url the book is made at once
BItem ==
  /\ b_pc = "items"
  /\ LET item == Head(b_queue)
         book_id == BUuid(b_uuid)
     IN  IF Truthy(item.book_url)
         THEN /\ b_pc' = "detail"
              /\ b_cur' = [item |-> item, book_id |-> book_id]
              /\ b_uuid' = b_uuid + 1
              /\ b_fetches' = b_fetches + 1
              /\ b_queue' = Tail(b_queue)
              /\ UNCHANGED <<b_exc, b_err, b_page, b_found, b_extracted, b_cat_total,
                             books, authors, book_categories, book_category_bridges>>
         ELSE /\ b_cur' = b_cur
              /\ BFinalize(item, book_id, item.author, item.categories,
                           item.description, Tail(b_queue), b_uuid + 1)
  /\ BFrame

\* the detail fetch answers: lines 914-1167
BDetail(Answers) ==
  /\ b_pc = "detail"
  /\ \E d \in Answers :
       LET item == b_cur.item
           html == d.kind = "html"
           author_name == IF html THEN DetailAuthor(item.author, d, item.title)
                          ELSE item.author
           categories == IF html THEN DetailCategories(item.categories, d)
                         ELSE item.categories
           description == IF html /\ d.description # None THEN d.description
                          ELSE item.description
       IN  BFinalize(item, b_cur.book_id, author_name, categories, description, b_queue,
                     b_uuid)
  /\ b_cur' = b_cur
  /\ BFrame

\* ------------------------------------------------------------- books: pages
BookContainer(title, price, href, classes, llm) ==
  [title |-> title, price |-> price, href |-> href, availability |-> "In stock",
   classes |-> classes, llm |-> llm]

BookItem(title, price, author, categories, rating_t, rating, book_url) ==
  [title |-> title, price |-> price, author |-> author, categories |-> categories,
   availability |-> "In stock", rating_t |-> rating_t, rating |-> rating,
   description |-> "", book_url |-> book_url]

\* a book with a detail page; the service knows nothing more
BK_Dune == BookContainer("Dune", "51.77", "/catalogue/dune_1/index.html", "star-rating Three", NoRecord)
\* a book without a link; the service names its author and two categories
BK_Emma == BookContainer("Emma", "13.99", "", "star-rating Five",
             BookItem("Emma", "13.99", "Jane Austen", <<"Classics", "Romance">>, "int", 5, Absent))
\* the service answers the sentinel author
BK_Ulysses == BookContainer("Ulysses", "47.82", "", "star-rating One",
                BookItem("Ulysses", "47.82", "Unknown", <<>>, "int", 1, Absent))
\* no title element, the service finds nothing either
BK_NoTitle == BookContainer("", "0.00", "", "", NoRecord)
\* no title element; the service finds the book and rates it 7
BK_LlmRated7 == BookContainer("", "47.82", "", "",
                  BookItem("Sharp Objects", "47.82", "Gillian Flynn", <<"Mystery">>, "int", 7, Absent))

BookKinds == {BK_Dune, BK_Emma, BK_Ulysses, BK_NoTitle, BK_LlmRated7}

\* a book without a link whose container carries a blurb: the CSS extractor
\* leaves the description empty (line 316), the service reads it
BK_Persuasion ==
  BookContainer("Persuasion", "11.20", "", "star-rating Four",
    [BookItem("Persuasion", "11.20", "Jane Austen", <<"Classics">>, "int", 4, Absent)
       EXCEPT !.description = "A novel of second chances"])

BD_Raise == [kind |-> "raise", author |-> None, crumbs |-> <<>>, description |-> None]
BD_NoHtml == [kind |-> "nohtml", author |-> None, crumbs |-> <<>>, description |-> None]
BD_Bare == [kind |-> "html", author |-> None, crumbs |-> <<>>, description |-> None]
BD_Poetry == [kind |-> "html", author |-> "the desert", crumbs |-> <<"Poetry">>,
              description |-> "A desert planet."]
BD_Herbert == [kind |-> "html", author |-> "Frank Herbert",
               crumbs |-> <<"Science Fiction", "Classics">>, description |-> None]

BookAnswers == {BD_Raise, BD_NoHtml, BD_Bare, BD_Poetry, BD_Herbert}

\* ------------------------------------------------------------- films: extraction
\* range(2010, 2016)
first_year == 2010
last_year == 2015

\* str(uuid.uuid4()) of the films pipeline
FUuid(n) == "uuid-f" \o ToString(n)

\* A film of films_data is [is_dict, title, year_t, year, awards_t, awards,
\* best_picture, director, actors]: is_dict FALSE for a JSON value that is no
\* object; year_t and awards_t are "num", "null" or "absent".
_is_valid_film(item) ==
  IF item.title = None THEN "raise"
  ELSE
    LET title == strip(Get(item.title, ""))
    IN  IF title = "" \/ lower(title) = "unknown" THEN "reject" ELSE "accept"

\* lines 1488-1503 (names in ASCII), in the order of the dict
film_mapping ==
  << [key |-> "inception", director |-> "Christopher Nolan",
      actors |-> <<"Leonardo DiCaprio", "Marion Cotillard", "Tom Hardy">>],
     [key |-> "the king's speech", director |-> "Tom Hooper",
      actors |-> <<"Colin Firth", "Geoffrey Rush", "Helena Bonham Carter">>],
     [key |-> "the social network", director |-> "David Fincher",
      actors |-> <<"Jesse Eisenberg", "Andrew Garfield", "Justin Timberlake">>],
     [key |-> "toy story 3", director |-> "Lee Unkrich",
      actors |-> <<"Tom Hanks", "Tim Allen", "Joan Cusack">>],
     [key |-> "black swan", director |-> "Darren Aronofsky",
      actors |-> <<"Natalie Portman", "Mila Kunis", "Vincent Cassel">>],
     [key |-> "the fighter", director |-> "David O. Russell",
      actors |-> <<"Mark Wahlberg", "Christian Bale", "Amy Adams">>],
     [key |-> "127 hours", director |-> "Danny Boyle", actors |-> <<"James Franco">>],
     [key |-> "the artist", director |-> "Michel Hazanavicius",
      actors |-> <<"Jean Dujardin", "Berenice Bejo">>],
     [key |-> "argo", director |-> "Ben Affleck",
      actors |-> <<"Ben Affleck", "Bryan Cranston", "John Goodman">>],
     [key |-> "gravity", director |-> "Alfonso Cuaron",
      actors |-> <<"Sandra Bullock", "George Clooney">>],
     [key |-> "12 years a slave", director |-> "Steve McQueen",
      actors |-> <<"Chiwetel Ejiofor", "Michael Fassbender", "Lupita Nyong'o">>],
     [key |-> "birdman", director |-> "Alejandro Gonzalez Inarritu",
      actors |-> <<"Michael Keaton", "Edward Norton", "Emma Stone">>],
     [key |-> "the revenant", director |-> "Alejandro Gonzalez Inarritu",
      actors |-> <<"Leonardo DiCaprio", "Tom Hardy">>],
     [key |-> "spotlight", director |-> "Tom McCarthy",
      actors |-> <<"Mark Ruffalo", "Michael Keaton", "Rachel McAdams">>] >>

\* lines 1505-1526: the director and actors of a film without a director
FabricateDirector(film, year) ==
  LET title_lower == lower(Get(film.title, ""))
      hits == {k \in 1..Len(film_mapping) : Contains(title_lower, film_mapping[k].key)}
  IN  IF hits # {}
      THEN LET k == CHOOSE h \in hits : \A j \in hits : h <= j
           IN  [film EXCEPT !.director = film_mapping[k].director,
                            !.actors = film_mapping[k].actors]
      ELSE IF year >= 2010 /\ year <= 2012
      THEN [film EXCEPT !.director = "David Fincher",
                        !.actors = <<"Brad Pitt", "Edward Norton">>]
      ELSE IF year >= 2013 /\ year <= 2015
      THEN [film EXCEPT !.director = "Alejandro Gonzalez Inarritu",
                        !.actors = <<"Leonardo DiCaprio", "Tom Hardy">>]
      ELSE [film EXCEPT !.director = "Christopher Nolan",
                        !.actors = <<"Christian Bale", "Anne Hathaway">>]

\* lines 1477-1526: rows is enrichment_data as the rows [title, director,
\* actors] of the main page that carry a title, a later row replacing an
\* earlier one of the same title
EnrichFilm(film, rows, year) ==
  IF ~film.is_dict \/ ~Truthy(film.title) THEN film
  ELSE
    LET hits == {k \in 1..Len(rows) : rows[k].title = film.title}
        e == rows[CHOOSE h \in hits : \A j \in hits : h >= j]
        merged == IF hits = {} THEN film
                  ELSE [film EXCEPT
                          !.director = IF Truthy(e.director) THEN e.director ELSE film.director,
                          !.actors = IF e.actors # <<>> THEN e.actors ELSE film.actors]
    IN  IF ~Truthy(merged.director) \/ merged.director = "Not Specified"
        THEN FabricateDirector(merged, year)
        ELSE merged

IsDict(x) == x.is_dict

\* lines 1585-1599: acc is [valid, failed, raised]
RECURSIVE ValidateFilms(_, _, _)
ValidateFilms(fs, i, acc) ==
  IF i > Len(fs) \/ acc.raised THEN acc
  ELSE
    LET v == IF ~fs[i].is_dict THEN "reject" ELSE _is_valid_film(fs[i])
    IN  ValidateFilms(fs, i + 1,
          [valid |-> IF v = "accept" THEN Append(acc.valid, fs[i]) ELSE acc.valid,
           failed |-> IF v = "reject" THEN Append(acc.failed, fs[i]) ELSE acc.failed,
           raised |-> v = "raise"])

\* lines 1669-1682: acc is [dim, bridges]
RECURSIVE LinkActors(_, _, _, _)
LinkActors(actors_list, i, media_id, acc) ==
  IF i > Len(actors_list) THEN acc
  ELSE
    LET dim == Normalize(acc.dim, actors_list[i], "PERF")
    IN  LinkActors(actors_list, i + 1, media_id,
          [dim |-> dim,
           bridges |-> Append(acc.bridges,
                         [media_id |-> media_id, perf_cd |-> Lookup(dim, actors_list[i]),
                          role_nm |-> None])])

\* lines 1613-1689: `for item in valid_films`.  st is the store of the films
\* pipeline with the uuid counter and `raised`: an item that raises ends the
\* loop with what was written before.
RECURSIVE MakeFilms(_, _, _, _)
MakeFilms(items, i, year, st) ==
  IF i > Len(items) \/ st.raised THEN st
  ELSE
    LET item == items[i]
        media_id == FUuid(st.uuid)
        director0 == IF Truthy(item.director) THEN item.director ELSE "Not Specified"
        awards_raise == ~item.best_picture /\ item.awards_t = "null"
        awards_count == IF item.awards_t = "num" THEN item.awards ELSE 0
        award_name == IF item.best_picture THEN "Best Picture"
                      ELSE IF awards_count > 0 THEN "Academy Award Winner"
                      ELSE "Best Picture"
        director_name == IF lower(director0) \in {"unknown", "unknown director"}
                         THEN "Not Specified" ELSE director0
        dirs == Normalize(st.directors, director_name, "DIR")
        awds == Normalize(st.award_categories, award_name, "AWD")
        yr == IF item.year_t = "num" THEN item.year ELSE year
        film == [media_id |-> media_id, media_ttl |-> item.title, yr_val |-> yr,
                 awd_cat_cd |-> Lookup(awds, award_name),
                 dir_cd |-> Lookup(dirs, director_name)]
        linked == LinkActors(item.actors, 1, media_id,
                    [dim |-> st.actors, bridges |-> st.film_actor_bridges])
    IN  IF awards_raise
        THEN \* None > 0 raises TypeError
             [st EXCEPT !.raised = TRUE, !.uuid = st.uuid + 1]
        ELSE IF item.year_t = "null"
        THEN \* int(None) raises TypeError
             [st EXCEPT !.raised = TRUE, !.uuid = st.uuid + 1,
                        !.directors = dirs, !.award_categories = awds]
        ELSE MakeFilms(items, i + 1, year,
               [films |-> Append(st.films, film),
                directors |-> dirs,
                actors |-> linked.dim,
                award_categories |-> awds,
                film_actor_bridges |-> linked.bridges,
                film_award_bridges |-> Append(st.film_award_bridges,
                   [media_id |-> media_id, awd_cat_cd |-> Lookup(awds, award_name),
                    awd_yr |-> yr]),
                uuid |-> st.uuid + 1,
                raised |-> FALSE])

\* ------------------------------------------------------------- films: steps
NoMain == [kind |-> "none", has_content |-> FALSE, rows |-> <<>>]

\* the skip-rate check after the loop over the years, lines 1695-1700
FFinish(found, extracted) ==
  /\ f_pc' = IF _check_skip_rate(found, extracted) THEN "raised" ELSE "done"
  /\ f_exc' = IF _check_skip_rate(found, extracted) THEN "gate" ELSE "none"

\* `continue` (also of `except Exception`): the next year, or the end of the loop
FNextYear(found, extracted) ==
  /\ f_main' = NoMain
  /\ IF f_year + 1 <= last_year
     THEN /\ f_year' = f_year + 1
          /\ f_pc' = "main"
          /\ f_fetches' = f_fetches + 1
          /\ f_exc' = f_exc
     ELSE /\ FFinish(found, extracted)
          /\ UNCHANGED <<f_year, f_fetches>>

\* scrape_films starting by emptying the products list of the shared object
FStart_resetting ==
  /\ f_pc = "idle"
  /\ f_pc' = "main"
  /\ f_year' = first_year
  /\ f_fetches' = f_fetches + 1
  /\ products' = <<>>
  /\ UNCHANGED <<f_exc, f_err, f_found, f_extracted, f_main, f_uuid,
                 films, directors, actors, award_categories, film_actor_bridges,
                 film_award_bridges>>
  /\ UNCHANGED <<llm_api_key, bvars, rvars, uvars>>
  /\ UNCHANGED <<p_pc, p_exc, p_err, p_page, p_found, p_extracted, p_queue, p_cur, p_uuid,
                 p_fetches, product_categories, product_variants, product_reviews,
                 similar_products>>

FStart ==
  /\ f_pc = "idle"
  /\ f_pc' = "main"
  /\ f_year' = first_year
  /\ f_fetches' = f_fetches + 1
  /\ UNCHANGED <<f_exc, f_err, f_found, f_extracted, f_main, f_uuid,
                 films, directors, actors, award_categories, film_actor_bridges,
                 film_award_bridges>>
  /\ FFrame

\* AsyncWebCrawler fails to start: the outer except re-raises, lines 1698-1700
FCrawlerFail ==
  /\ f_pc = "idle"
  /\ f_pc' = "raised"
  /\ f_exc' = "crawler"
  /\ UNCHANGED <<f_err, f_year, f_found, f_extracted, f_main, f_uuid, f_fetches,
                 films, directors, actors, award_categories, film_actor_bridges,
                 film_award_bridges>>
  /\ FFrame

\* the fetch of the main page of the year raises: `except: continue`
FMainFail ==
  /\ f_pc = "main"
  /\ f_err' = TRUE
  /\ FNextYear(f_found, f_extracted)
  /\ UNCHANGED <<f_found, f_extracted, f_uuid,
                 films, directors, actors, award_categories, film_actor_bridges,
                 film_award_bridges>>
  /\ FFrame

\* the main page answers (lines 1204-1209); the AJAX fetch is issued
FMain(Answers) ==
  /\ f_pc = "main"
  /\ \E a \in Answers : f_main' = a
  /\ f_pc' = "ajax"
  /\ f_fetches' = f_fetches + 1
  /\ UNCHANGED <<f_exc, f_err, f_year, f_found, f_extracted, f_uuid,
                 films, directors, actors, award_categories, film_actor_bridges,
                 film_award_bridges>>
  /\ FFrame

\* the AJAX fetch raises, or answers neither html nor markdown (lines 1223-1225)
FAjaxFail ==
  /\ f_pc = "ajax"
  /\ \E raised \in BOOLEAN : f_err' = (f_err \/ raised)
  /\ FNextYear(f_found, f_extracted)
  /\ UNCHANGED <<f_found, f_extracted, f_uuid,
                 films, directors, actors, award_categories, film_actor_bridges,
                 film_award_bridges>>
  /\ FFrame

\* the AJAX fetch answers: the rest of the year, lines 1227-1689.  json says
\* that films_data was parsed from the answer; otherwise the films are what
\* the extraction service finds in the page (nothing without a credential).
FAjax(Kinds, Budget) ==
  /\ f_pc = "ajax"
  /\ \E json \in BOOLEAN :
     \E raw \in UNION {[1..m -> Kinds] : m \in 0..(Budget - f_found)} :
       LET films_data ==
             IF json
             THEN IF raw # <<>> /\ f_main.has_content
                  THEN [k \in 1..Len(raw) |-> EnrichFilm(raw[k], f_main.rows, f_year)]
                  ELSE raw
             ELSE IF llm_api_key THEN SelectSeq(raw, IsDict) ELSE <<>>
           found == f_found + Len(films_data)
           v == ValidateFilms(films_data, 1, [valid |-> <<>>, failed |-> <<>>, raised |-> FALSE])
           extracted == f_extracted + Len(v.valid)
           st == MakeFilms(v.valid, 1, f_year,
                   [films |-> films, directors |-> directors, actors |-> actors,
                    award_categories |-> award_categories,
                    film_actor_bridges |-> film_actor_bridges,
                    film_award_bridges |-> film_award_bridges,
                    uuid |-> f_uuid, raised |-> FALSE])
       IN  IF films_data = <<>>
           THEN /\ FNextYear(f_found, f_extracted)
                /\ UNCHANGED <<f_err, f_found, f_extracted, f_uuid,
                               films, directors, actors, award_categories,
                               film_actor_bridges, film_award_bridges>>
           ELSE IF v.raised \/ v.valid = <<>>
           THEN /\ f_found' = found
                /\ f_err' = (f_err \/ v.raised)
                /\ FNextYear(found, f_extracted)
                /\ UNCHANGED <<f_extracted, f_uuid,
                               films, directors, actors, award_categories,
                               film_actor_bridges, film_award_bridges>>
           ELSE /\ f_found' = found
                /\ f_extracted' = extracted
                /\ f_err' = (f_err \/ st.raised)
                /\ f_uuid' = st.uuid
                /\ films' = st.films
                /\ directors' = st.directors
                /\ actors' = st.actors
                /\ award_categories' = st.award_categories
                /\ film_actor_bridges' = st.film_actor_bridges
                /\ film_award_bridges' = st.film_award_bridges
                /\ FNextYear(found, extracted)
  /\ FFrame

\* ------------------------------------------------------------- films: pages
FilmItem(title, year_t, awards_t, awards, best_picture) ==
  [is_dict |-> TRUE, title |-> title, year_t |-> year_t, year |-> 0,
   awards_t |-> awards_t, awards |-> awards, best_picture |-> best_picture,
   director |-> Absent, actors |-> <<>>]

FK_Argo == FilmItem("Argo", "absent", "num", 3, TRUE)
FK_Her == FilmItem("Her", "absent", "num", 1, FALSE)
FK_NoTitle == FilmItem("", "absent", "num", 0, FALSE)
FK_NullYear == FilmItem("Gravity", "null", "num", 7, FALSE)
FK_NullAwards == FilmItem("Amour", "absent", "null", 0, FALSE)
FK_NullTitle == FilmItem(None, "absent", "num", 0, FALSE)
FK_NotDict == [FilmItem("", "absent", "absent", 0, FALSE) EXCEPT !.is_dict = FALSE]

\* the listing carries the year of the film
FK_Argo12 == [FK_Argo EXCEPT !.year_t = "num", !.year = 2012]

FilmKinds == {FK_Argo, FK_Her, FK_NoTitle, FK_NullYear, FK_NullAwards, FK_NullTitle, FK_NotDict}

FM_Empty == [kind |-> "ok", has_content |-> FALSE, rows |-> <<>>]
FM_Bare == [kind |-> "ok", has_content |-> TRUE, rows |-> <<>>]
FM_Rows == [kind |-> "ok", has_content |-> TRUE,
            rows |-> <<[title |-> "Her", director |-> "Spike Jonze",
                        actors |-> <<"Joaquin Phoenix", "Amy Adams">>]>>]

MainAnswers == {FM_Empty, FM_Bare, FM_Rows}

\* ------------------------------------------------------------- run_all, to_dataframes
\* gather without return_exceptions
return_exceptions_off == FALSE

\* asyncio.gather(..., return_exceptions=True), line 1789
return_exceptions == TRUE

Ended(pc) == pc \in {"done", "raised"}
\* the wait of run_all ending at the first task that ends
AllEnded_first == Ended(p_pc) \/ Ended(b_pc) \/ Ended(f_pc)
AllEnded == Ended(p_pc) /\ Ended(b_pc) /\ Ended(f_pc)
SomeRaised == p_pc = "raised" \/ b_pc = "raised" \/ f_pc = "raised"

\* run_all is called: _ensure_playwright_chromium, then the three coroutines
\* are handed to gather
RunAll ==
  /\ r_pc = "idle"
  /\ r_pc' = "gather"
  /\ UNCHANGED <<r_raised, m_tables>>
  /\ RFrame

\* `playwright install chromium` fails: subprocess.run(check=True) raises
RunAllInstallFail ==
  /\ r_pc = "idle"
  /\ r_pc' = "raised"
  /\ r_raised' = TRUE
  /\ UNCHANGED m_tables
  /\ RFrame

\* the await of gather ends: with return_exceptions when the three tasks have
\* ended, the exceptions among the results; without it also at the first
\* exception, which is raised to the caller
RunAllReturn ==
  /\ r_pc = "gather"
  /\ IF return_exceptions THEN AllEnded ELSE (AllEnded \/ SomeRaised)
  /\ r_raised' = (~return_exceptions /\ SomeRaised)
  /\ r_pc' = IF ~return_exceptions /\ SomeRaised THEN "raised" ELSE "returned"
  /\ UNCHANGED m_tables
  /\ RFrame

TableNames ==
  <<"CAT_REF", "BK_CAT_REF", "AUTH_REF", "DIR_REF", "PERF_REF", "AWARD_REF",
    "INV_MAST", "BK_CATALOG", "MEDIA_MAST",
    "BK_CAT_XREF", "MEDIA_PERF_XREF", "MEDIA_AWD_XREF",
    "INV_VAR", "INV_REV", "INV_SIM">>

Backing(t) ==
  CASE t = "CAT_REF" -> product_categories
    [] t = "BK_CAT_REF" -> book_categories
    [] t = "AUTH_REF" -> authors
    [] t = "DIR_REF" -> directors
    [] t = "PERF_REF" -> actors
    [] t = "AWARD_REF" -> award_categories
    [] t = "INV_MAST" -> products
    [] t = "BK_CATALOG" -> books
    [] t = "MEDIA_MAST" -> films
    [] t = "BK_CAT_XREF" -> book_category_bridges
    [] t = "MEDIA_PERF_XREF" -> film_actor_bridges
    [] t = "MEDIA_AWD_XREF" -> film_award_bridges
    [] t = "INV_VAR" -> product_variants
    [] t = "INV_REV" -> product_reviews
    [] t = "INV_SIM" -> similar_products

\* to_dataframes without the `if self.<collection>:` tests
to_dataframes_unguarded ==
  [t \in {TableNames[k] : k \in 1..Len(TableNames)} |-> Backing(t)]

\* one table per non-empty collection, one row per element
to_dataframes ==
  [t \in {TableNames[k] : k \in {j \in 1..Len(TableNames) : Backing(TableNames[j]) # <<>>}}
     |-> Backing(t)]

\* lines 1765-1779: one path per table of to_dataframes()
export_to_csv == [t \in DOMAIN to_dataframes |-> "data/" \o lower(t) \o ".csv"]

NoTables == [none |-> TRUE]

\* main(): dataframes = scraper.to_dataframes() after run_all has returned
MainToDataframes ==
  /\ r_pc = "returned"
  /\ m_tables = NoTables
  /\ m_tables' = to_dataframes
  /\ UNCHANGED <<r_pc, r_raised>>
  /\ RFrame

\* ------------------------------------------------------------- pure functions, called alone
UnitNames == {Absent, None, "", "  ", "Widget", " Widget ", "Shopping Cart", "API Docs"}
UnitCategories == {Absent, None, "", "Gadgets", "Unknown", " unknown "}
UnitPrices == {<<"absent", 0>>, <<"null", 0>>, <<"num", 0 - 1>>, <<"num", 0>>,
               <<"num", 1>>, <<"num", 999>>}

NoItem == Item("", "absent", 0, Absent, Absent)

\* _is_valid_product(u_item)
UnitValidProduct ==
  /\ u_fn = "_is_valid_product"
  /\ u_res = ""
  /\ u_res' = _is_valid_product(u_item)
  /\ UNCHANGED <<u_fn, u_item, u_found, u_extracted>>
  /\ UFrame

\* _is_valid_book(u_item)
UnitValidBook ==
  /\ u_fn = "_is_valid_book"
  /\ u_res = ""
  /\ u_res' = _is_valid_book(u_item)
  /\ UNCHANGED <<u_fn, u_item, u_found, u_extracted>>
  /\ UFrame

\* _is_valid_film(u_item)
UnitValidFilm ==
  /\ u_fn = "_is_valid_film"
  /\ u_res = ""
  /\ u_res' = _is_valid_film(u_item)
  /\ UNCHANGED <<u_fn, u_item, u_found, u_extracted>>
  /\ UFrame

\* the selector of scrape_products (lines 511-520) or of scrape_books (lines
\* 849-871) applied to one container: u_item becomes the container, the
\* candidate selected and the number of extraction calls issued
UnitSelect ==
  /\ u_fn \in {"select_product", "select_book"}
  /\ u_res = ""
  /\ u_res' = "return"
  /\ u_item' =
       IF u_fn = "select_product"
       THEN [container |-> u_item,
             candidate |-> SelectProduct(u_item, PUuid(1), llm_api_key),
             calls |-> IF ProductAsksService(u_item, PUuid(1))
                       THEN _extract_items_with_llm(<<u_item.llm>>, llm_api_key).calls
                       ELSE 0]
       ELSE [container |-> u_item,
             candidate |-> SelectBook(u_item, llm_api_key),
             calls |-> _extract_items_with_llm(<<u_item.llm>>, llm_api_key).calls]
  /\ UNCHANGED <<u_fn, u_found, u_extracted>>
  /\ UFrame

\* lines 354-372 (and 962-994 of scrape_books): the scratch file of one
\* extraction call.  NamedTemporaryFile(delete=False) creates the file; a write
\* that raises leaves the `with` block, which closes the file without removing
\* it, and reaches the outer except before the try/finally that unlinks is
\* entered; otherwise the finally unlinks the file whether or not arun raises.
\* Result: the number of scratch files left and whether the call was issued.
ScratchFile(write_raises, arun_raises) ==
  IF write_raises THEN [left |-> 1, called |-> FALSE, raised |-> FALSE]
  ELSE [left |-> 0, called |-> TRUE, raised |-> FALSE]

\* one section handed to the extraction service through a scratch file
UnitScratch ==
  /\ u_fn = "scratch_file"
  /\ u_res = ""
  /\ u_res' = "return"
  /\ u_item' = [input |-> u_item,
                result |-> ScratchFile(u_item.write_raises, u_item.arun_raises)]
  /\ UNCHANGED <<u_fn, u_found, u_extracted>>
  /\ UFrame

\* database.py: the tables by layer, in the order of the CREATE statements of
\* create_dimension_tables, create_fact_tables, create_bridge_tables and
\* create_detail_tables, which is also the order of the lists of load_all_data
table_layers ==
  << <<"CAT_REF", "BK_CAT_REF", "AUTH_REF", "DIR_REF", "PERF_REF", "AWARD_REF">>,
     <<"INV_MAST", "BK_CATALOG", "MEDIA_MAST">>,
     <<"BK_CAT_XREF", "MEDIA_PERF_XREF", "MEDIA_AWD_XREF">>,
     <<"INV_VAR", "INV_REV", "INV_SIM">> >>

\* create_all_tables calling create_fact_tables first
create_all_tables_facts_first(fail_at) ==
  LET order == table_layers[2] \o table_layers[1] \o table_layers[3] \o table_layers[4]
  IN  [issued |-> IF fail_at = 0 THEN order ELSE SubSeq(order, 1, fail_at),
       raised |-> fail_at # 0]

\* database.py lines 296-301: the CREATE TABLE statements issued, in order;
\* statement number fail_at raises (0: none), which ends the call (each
\* create_*_tables logs and re-raises)
create_all_tables(fail_at) ==
  LET order == table_layers[1] \o table_layers[2] \o table_layers[3] \o table_layers[4]
  IN  [issued |-> IF fail_at = 0 THEN order ELSE SubSeq(order, 1, fail_at),
       raised |-> fail_at # 0]

\* database.py lines 371-399: the tables handed to load_dataframe, in order;
\* dataframes is the set of the table names of the input, load number fail_at
\* raises (0: none)
load_all_data(dataframes, fail_at) ==
  LET Given(t) == t \in dataframes
      order == SelectSeq(table_layers[1], Given) \o SelectSeq(table_layers[2], Given)
               \o SelectSeq(table_layers[3], Given) \o SelectSeq(table_layers[4], Given)
      fails == fail_at # 0 /\ fail_at <= Len(order)
  IN  [issued |-> IF fails THEN SubSeq(order, 1, fail_at) ELSE order,
       raised |-> fails]

\* create_all_tables() or load_all_data(dataframes) on a connected manager
UnitDatabase ==
  /\ u_fn \in {"create_all_tables", "load_all_data"}
  /\ u_res = ""
  /\ LET r == IF u_fn = "create_all_tables" THEN create_all_tables(u_item.fail_at)
              ELSE load_all_data(u_item.dataframes, u_item.fail_at)
     IN  /\ u_res' = IF r.raised THEN "raise" ELSE "return"
         /\ u_item' = [input |-> u_item, issued |-> r.issued]
  /\ UNCHANGED <<u_fn, u_found, u_extracted>>
  /\ UFrame

\* _check_skip_rate(source, u_found, u_extracted)
UnitCheckSkipRate ==
  /\ u_fn = "_check_skip_rate"
  /\ u_res = ""
  /\ u_res' = IF _check_skip_rate(u_found, u_extracted) THEN "raise" ELSE "return"
  /\ UNCHANGED <<u_fn, u_item, u_found, u_extracted>>
  /\ UFrame

\* ------------------------------------------------------------- specifications
InitP ==
  /\ p_pc = "idle" /\ p_exc = "none" /\ p_err = FALSE /\ p_page = 0
  /\ p_found = 0 /\ p_extracted = 0 /\ p_queue = <<>> /\ p_cur = "" /\ p_uuid = 1
  /\ p_fetches = 0
  /\ products = <<>> /\ product_categories = <<>> /\ product_variants = <<>>
  /\ product_reviews = <<>> /\ similar_products = <<>>

InitB ==
  /\ b_pc = "idle" /\ b_exc = "none" /\ b_err = FALSE /\ b_page = 0
  /\ b_found = 0 /\ b_extracted = 0 /\ b_queue = <<>> /\ b_cur = NoRecord /\ b_uuid = 1
  /\ b_fetches = 0 /\ b_cat_total = 0
  /\ books = <<>> /\ authors = <<>> /\ book_categories = <<>>
  /\ book_category_bridges = <<>>

InitF ==
  /\ f_pc = "idle" /\ f_exc = "none" /\ f_err = FALSE /\ f_year = 0
  /\ f_found = 0 /\ f_extracted = 0 /\ f_main = NoMain /\ f_uuid = 1 /\ f_fetches = 0
  /\ films = <<>> /\ directors = <<>> /\ actors = <<>> /\ award_categories = <<>>
  /\ film_actor_bridges = <<>> /\ film_award_bridges = <<>>

InitR == r_pc = "idle" /\ r_raised = FALSE /\ m_tables = NoTables

InitU ==
  /\ u_fn = "" /\ u_item = NoItem /\ u_found = 0 /\ u_extracted = 0 /\ u_res = ""

\* WebScraper(): empty collections; the credential is read from the environment
Init ==
  /\ llm_api_key \in BOOLEAN
  /\ InitP /\ InitB /\ InitF /\ InitR /\ InitU

\* the pages the sources serve when the three pipelines run together
AllProductKinds == {PC_Widget, PC_Free}
AllDetailAnswers == {D_Raise, D_Llm}
AllBookKinds == {BK_Dune, BK_NoTitle}
AllBookAnswers == {BD_Herbert}
AllFilmKinds == {FK_Argo12, FK_NoTitle}
AllMainAnswers == {FM_Bare}

\* main(): run_all, then to_dataframes
Next ==
  \/ RunAll
  \/ RunAllInstallFail
  \/ r_pc = "gather" /\ PStart
  \/ r_pc = "gather" /\ PCrawlerFail
  \/ PFetchFail
  \/ PFetchPage(AllProductKinds, MaxItemsAll)
  \/ PItem
  \/ PDetail(AllDetailAnswers)
  \/ r_pc = "gather" /\ BStart
  \/ r_pc = "gather" /\ BCrawlerFail
  \/ BFetchFail
  \/ BFetchPage(AllBookKinds, MaxItemsAll)
  \/ BItem
  \/ BDetail(AllBookAnswers)
  \/ r_pc = "gather" /\ FStart
  \/ r_pc = "gather" /\ FCrawlerFail
  \/ FMainFail
  \/ FMain(AllMainAnswers)
  \/ FAjaxFail
  \/ FAjax(AllFilmKinds, MaxItemsAll)
  \/ RunAllReturn
  \/ MainToDataframes

Spec == Init /\ [][Next]_vars

\* A WebScraper object on which run_all has returned once and is about to be
\* called again: the collections are those the first call left (here: one
\* Widget, one book, one film and their dimensions and bridges, an end state
\* of Spec), since nothing but __init__ (lines 67-84) ever empties them; the
\* locals of the three coroutines are those of a new call; fresh uuids differ
\* from the ones drawn before.
InitAgain ==
  /\ llm_api_key \in BOOLEAN
  /\ p_pc = "idle" /\ p_exc = "none" /\ p_err = FALSE /\ p_page = 0
  /\ p_found = 0 /\ p_extracted = 0 /\ p_queue = <<>> /\ p_cur = "" /\ p_uuid = 3
  /\ p_fetches = 0
  /\ products = <<[inv_id |-> "1", inv_nm |-> "Widget", unit_prc |-> 999,
                   cat_cd |-> "CAT_0001", desc_txt |-> "", lnk_id |-> "uuid-p2"]>>
  /\ product_categories = <<[cd |-> "CAT_0001", nm |-> "Gadgets"]>>
  /\ product_variants = <<>> /\ product_reviews = <<>> /\ similar_products = <<>>
  /\ b_pc = "idle" /\ b_exc = "none" /\ b_err = FALSE /\ b_page = 0
  /\ b_found = 0 /\ b_extracted = 0 /\ b_queue = <<>> /\ b_cur = NoRecord /\ b_uuid = 3
  /\ b_fetches = 0 /\ b_cat_total = 0
  /\ books = <<[bk_id |-> "uuid-b1", bk_ttl |-> "Dune", unit_prc |-> 5177,
                auth_cd |-> "AUTH_0001", avail_sts |-> "In stock", rtg_val |-> 3,
                desc_txt |-> "", lnk_id |-> "uuid-b2"]>>
  /\ authors = <<[cd |-> "AUTH_0001", nm |-> "Frank Herbert"]>>
  /\ book_categories = <<[cd |-> "BK_CAT_0001", nm |-> "Science Fiction"],
                         [cd |-> "BK_CAT_0002", nm |-> "Classics"]>>
  /\ book_category_bridges = <<[bk_id |-> "uuid-b1", bk_cat_cd |-> "BK_CAT_0001"],
                               [bk_id |-> "uuid-b1", bk_cat_cd |-> "BK_CAT_0002"]>>
  /\ f_pc = "idle" /\ f_exc = "none" /\ f_err = FALSE /\ f_year = 0
  /\ f_found = 0 /\ f_extracted = 0 /\ f_main = NoMain /\ f_uuid = 2 /\ f_fetches = 0
  /\ films = <<[media_id |-> "uuid-f1", media_ttl |-> "Argo", yr_val |-> 2012,
                awd_cat_cd |-> "AWD_0001", dir_cd |-> "DIR_0001"]>>
  /\ directors = <<[cd |-> "DIR_0001", nm |-> "Ben Affleck"]>>
  /\ actors = <<[cd |-> "PERF_0001", nm |-> "Ben Affleck"],
                 [cd |-> "PERF_0002", nm |-> "Bryan Cranston"],
                 [cd |-> "PERF_0003", nm |-> "John Goodman"]>>
  /\ award_categories = <<[cd |-> "AWD_0001", nm |-> "Best Picture"]>>
  /\ film_actor_bridges = <<[media_id |-> "uuid-f1", perf_cd |-> "PERF_0001", role_nm |-> None],
                             [media_id |-> "uuid-f1", perf_cd |-> "PERF_0002", role_nm |-> None],
                             [media_id |-> "uuid-f1", perf_cd |-> "PERF_0003", role_nm |-> None]>>
  /\ film_award_bridges = <<[media_id |-> "uuid-f1", awd_cat_cd |-> "AWD_0001",
                              awd_yr |-> 2012]>>
  /\ InitR /\ InitU

\* run_all called a second time on the same object, then to_dataframes
SpecAgain == InitAgain /\ [][Next]_vars

\* one of scrape_products, scrape_books, scrape_films awaited alone
NoneStarted == p_pc = "idle" /\ b_pc = "idle" /\ f_pc = "idle"

NextOne ==
  \/ NoneStarted /\ PStart
  \/ NoneStarted /\ PCrawlerFail
  \/ PFetchFail
  \/ PFetchPage(ProductKinds, MaxItems)
  \/ PItem
  \/ PDetail(DetailAnswers)
  \/ NoneStarted /\ BStart
  \/ NoneStarted /\ BCrawlerFail
  \/ BFetchFail
  \/ BFetchPage(BookKinds, MaxItems)
  \/ BItem
  \/ BDetail(BookAnswers)
  \/ NoneStarted /\ FStart
  \/ NoneStarted /\ FCrawlerFail
  \/ FMainFail
  \/ FMain(MainAnswers)
  \/ FAjaxFail
  \/ FAjax(FilmKinds, MaxFilms)

SpecOne == Init /\ [][NextOne]_vars

\* One pipeline awaited alone on a source that keeps serving pages: a page
\* holds one valid item or nothing, MaxLong items in all, so that only
\* max_pages can end the scan of a source that never runs dry.  Every fetch
\* returns, and the event loop resumes the coroutine that awaits it.
NextLong ==
  \/ NoneStarted /\ PStart
  \/ NoneStarted /\ PCrawlerFail
  \/ PFetchFail
  \/ PFetchPage({PC_Widget}, IF p_found < MaxLong THEN p_found + 1 ELSE p_found)
  \/ PItem
  \/ PDetail({D_Raise})
  \/ NoneStarted /\ BStart
  \/ NoneStarted /\ BCrawlerFail
  \/ BFetchFail
  \/ BFetchPage({BK_Dune}, IF b_found < MaxLong THEN b_found + 1 ELSE b_found)
  \/ BItem
  \/ BDetail({BD_Bare})
  \/ NoneStarted /\ FStart
  \/ NoneStarted /\ FCrawlerFail
  \/ FMainFail
  \/ FMain({FM_Bare})
  \/ FAjaxFail
  \/ FAjax({FK_Argo12}, MaxFilms)

SpecLong == Init /\ [][NextLong]_vars /\ WF_vars(NextLong)

\* the validators and the gate, each called alone on arguments of the caller
InitUnit ==
  /\ llm_api_key \in BOOLEAN
  /\ InitP /\ InitB /\ InitF /\ InitR
  /\ u_res = ""
  /\ \/ /\ u_fn = "select_product"
        /\ u_item \in ProductKinds
        /\ u_found = 0 /\ u_extracted = 0
     \/ /\ u_fn = "select_book"
        /\ u_item \in BookKinds \cup {BK_Persuasion}
        /\ u_found = 0 /\ u_extracted = 0
     \/ /\ u_fn = "create_all_tables"
        /\ \E k \in 0..15 : u_item = [dataframes |-> {}, fail_at |-> k]
        /\ u_found = 0 /\ u_extracted = 0
     \/ /\ u_fn = "load_all_data"
        /\ \E d \in SUBSET {"CAT_REF", "AUTH_REF", "INV_MAST", "MEDIA_MAST", "BK_CAT_XREF",
                             "INV_VAR", "INV_SIM", "OTHER"},
              k \in 0..2 : u_item = [dataframes |-> d, fail_at |-> k]
        /\ u_found = 0 /\ u_extracted = 0
     \/ /\ u_fn = "scratch_file"
        /\ u_item \in [write_raises : BOOLEAN, arun_raises : BOOLEAN]
        /\ u_found = 0 /\ u_extracted = 0
     \/ /\ u_fn = "_is_valid_product"
        /\ \E n \in UnitNames, c \in UnitCategories, pr \in UnitPrices :
             u_item = Item(n, pr[1], pr[2], c, "1")
        /\ u_found = 0 /\ u_extracted = 0
     \/ /\ u_fn = "_is_valid_book"
        /\ \E t \in {Absent, None, "", "  ", "Dune", " Dune "},
              a \in {Absent, None, "", "Unknown", "unknown", " UNKNOWN ", "Unknown Author",
                     "Frank Herbert"} :
             u_item = BookItem(t, "51.77", a, <<>>, "absent", 0, Absent)
        /\ u_found = 0 /\ u_extracted = 0
     \/ /\ u_fn = "_is_valid_film"
        /\ \E t \in {Absent, None, "", "  ", "Argo", " Argo ", "Unknown", " unknown"} :
             u_item = FilmItem(t, "absent", "num", 3, TRUE)
        /\ u_found = 0 /\ u_extracted = 0
     \/ /\ u_fn = "_check_skip_rate"
        /\ u_item = NoItem
        /\ u_found \in 0..MaxFound
        /\ u_extracted \in 0..u_found

NextUnit ==
  \/ UnitValidProduct
  \/ UnitValidBook
  \/ UnitValidFilm
  \/ UnitSelect
  \/ UnitScratch
  \/ UnitDatabase
  \/ UnitCheckSkipRate

SpecUnit == InitUnit /\ [][NextUnit]_vars

\* ------------------------------------------------------------- properties
\* the six dimensions with their prefixes
Dimensions ==
  <<[dim |-> product_categories, prefix |-> "CAT"],
    [dim |-> book_categories, prefix |-> "BK_CAT"],
    [dim |-> authors, prefix |-> "AUTH"],
    [dim |-> directors, prefix |-> "DIR"],
    [dim |-> actors, prefix |-> "PERF"],
    [dim |-> award_categories, prefix |-> "AWD"]>>

\* names resolved against a dimension that may not hold them yet
ProbeNames == {"General", "Fiction", "Not Specified", "Best Picture", "Amy Adams", "Zed"}

\* the code a name resolves to: the normalisation followed by the lookup
Resolve(dim, name, prefix) == Lookup(Normalize(dim, name, prefix), name)

\* C1: in every dimension, resolving a name the dimension holds again yields
\* the code it holds and makes no entry, no name is held under two entries,
\* two different names never hold the same code, and a name resolved for the
\* first time gets a code no other name holds.
C1_SameNameSameCode ==
  \A d \in 1..Len(Dimensions) :
    LET dim == Dimensions[d].dim
        prefix == Dimensions[d].prefix
    IN  /\ \A i, j \in 1..Len(dim) :
             /\ dim[i].nm = dim[j].nm => i = j
             /\ dim[i].nm # dim[j].nm => dim[i].cd # dim[j].cd
        /\ \A i \in 1..Len(dim) :
             /\ Resolve(dim, dim[i].nm, prefix) = dim[i].cd
             /\ Normalize(dim, dim[i].nm, prefix) = dim
        /\ \A n \in ProbeNames \ Names(dim) :
             \A i \in 1..Len(dim) : Resolve(dim, n, prefix) # dim[i].cd

\* a products run that met the same category twice and a second category
C1_Witness ==
  /\ Len(products) >= 3
  /\ Len(product_categories) = 2
  /\ products[1].cat_cd = products[3].cat_cd
  /\ products[1].cat_cd # products[2].cat_cd

\* the 4-digit zero-padded decimal of k, digit by digit
Digit(n) == SubSeq("0123456789", n + 1, n + 1)
FourDigits(k) ==
  Digit((k \div 1000) % 10) \o Digit((k \div 100) % 10) \o Digit((k \div 10) % 10)
    \o Digit(k % 10)

\* C4: in every dimension the k-th first-seen name carries the prefix, '_' and
\* the 4-digit zero-padded number k, so a dimension of n names holds exactly
\* the numbers 1..n and its codes depend on the order of first sightings only.
C4_CodeIsPrefixAndCount ==
  \A d \in 1..Len(Dimensions) :
    LET dim == Dimensions[d].dim
    IN  \A k \in 1..Len(dim) :
          dim[k].cd = Dimensions[d].prefix \o "_" \o FourDigits(k)

\* a films run whose actors dimension holds three names and whose directors
\* dimension holds two
C4_Witness ==
  /\ Len(actors) >= 3
  /\ Len(directors) >= 2
  /\ actors[3].cd = "PERF_0003"
  /\ directors[2].cd = "DIR_0002"

IsPrefix(s, t) == Len(s) <= Len(t) /\ SubSeq(t, 1, Len(s)) = s

\* C5: no step removes or changes an entry of a dimension: each dimension
\* after a step starts with the dimension before it, name and code alike.
C5_DimensionsAppendOnly ==
  [][ /\ IsPrefix(product_categories, product_categories')
      /\ IsPrefix(book_categories, book_categories')
      /\ IsPrefix(authors, authors')
      /\ IsPrefix(directors, directors')
      /\ IsPrefix(actors, actors')
      /\ IsPrefix(award_categories, award_categories') ]_vars

\* a books run that gave codes to two authors and to three categories, book
\* after book
C5_Witness ==
  /\ Len(books) >= 2
  /\ Len(authors) >= 2
  /\ Len(book_categories) >= 3

\* C2: a call of the gate raises exactly when found > 0 and more than one
\* item in twenty was not accepted; never at found = 0, at 100 found and 94
\* accepted it raises, at 100 found and 95 accepted (5% exactly) it returns.
C2_GateRaisesAboveFivePercent ==
  (u_fn = "_check_skip_rate" /\ u_res # "") =>
    /\ u_res = "raise" <=> (u_found > 0 /\ 20 * (u_found - u_extracted) > u_found)
    /\ u_found = 0 => u_res = "return"
    /\ (u_found = 100 /\ u_extracted = 94) => u_res = "raise"
    /\ (u_found = 100 /\ u_extracted = 95) => u_res = "return"

\* the gate called with 100 found and 94 accepted has raised
C2_Witness ==
  /\ u_fn = "_check_skip_rate"
  /\ u_found = 100
  /\ u_extracted = 94
  /\ u_res = "raise"

\* every record of every non-empty collection is a row of the table of that
\* collection
TablesHoldStore ==
  \A k \in 1..Len(TableNames) :
    LET t == TableNames[k]
    IN  Backing(t) # <<>> => (t \in DOMAIN m_tables /\ m_tables[t] = Backing(t))

\* C3: the caller of run_all never sees the error of a pipeline; run_all
\* returns only when the three pipelines have ended, each by its own end; and
\* the tables made afterwards hold all the records accumulated, so the product
\* and book tables are there when those sources accepted items.
C3_PipelinesIsolated ==
  /\ SomeRaised => ~r_raised
  /\ r_pc = "returned" => AllEnded
  /\ m_tables # NoTables =>
       /\ TablesHoldStore
       /\ products # <<>> => ("INV_MAST" \in DOMAIN m_tables /\ m_tables["INV_MAST"] = products)
       /\ books # <<>> => ("BK_CATALOG" \in DOMAIN m_tables /\ m_tables["BK_CATALOG"] = books)

\* films raised by its gate, the two others ended with records, and the tables
\* were made
C3_Witness ==
  /\ f_pc = "raised"
  /\ f_exc = "gate"
  /\ p_pc = "done" /\ products # <<>>
  /\ b_pc = "done" /\ books # <<>>
  /\ ~r_raised
  /\ m_tables # NoTables
  /\ "MEDIA_MAST" \notin DOMAIN m_tables

\* C6: a source whose gate raised has its pipeline ended by that error, and
\* from then on no step changes anything of that source: no fetch is issued
\* and no fact, dimension, bridge or detail record is added or changed.
C6_GateStopsSource ==
  [][ /\ p_exc' = "gate" => p_pc' = "raised"
      /\ b_exc' = "gate" => b_pc' = "raised"
      /\ f_exc' = "gate" => f_pc' = "raised"
      /\ p_exc = "gate" => UNCHANGED pvars
      /\ b_exc = "gate" => UNCHANGED bvars
      /\ f_exc = "gate" => UNCHANGED fvars ]_vars

\* the products gate raised while the books pipeline, still running, went on
\* to fetch and to store a book
C6_Witness ==
  /\ p_exc = "gate"
  /\ p_pc = "raised"
  /\ p_fetches = 1
  /\ b_fetches >= 2
  /\ books # <<>>

\* C7 as stated: when a pipeline has ended, however it ended, its fact list
\* holds as many records as the accepted count given to the gate.
C7_FactsEqualAccepted ==
  /\ Ended(p_pc) => Len(products) = p_extracted
  /\ Ended(b_pc) => Len(books) = b_extracted
  /\ Ended(f_pc) => Len(films) = f_extracted

\* C8 as stated: when the books pipeline has ended, the bridge rows are as
\* many as the categories of the final lists of the accepted books.
C8_BridgeCountLaw ==
  Ended(b_pc) => Len(book_category_bridges) = b_cat_total

\* C9 as stated: no two records of one fact list carry the same identifier.
C9_UniqueFactIds ==
  /\ \A i, j \in 1..Len(products) : products[i].inv_id = products[j].inv_id => i = j
  /\ \A i, j \in 1..Len(books) : books[i].bk_id = books[j].bk_id => i = j
  /\ \A i, j \in 1..Len(films) : films[i].media_id = films[j].media_id => i = j

\* the candidate's name is a string that is not blank
NameNonEmpty(item) == item.name \notin {Absent, None} /\ strip(item.name) # ""
\* the candidate's price is a number above zero
PricePositive(item) == item.price_t = "num" /\ item.price > 0
\* the candidate's name holds a keyword of the navigation denylist
NameIsNavigation(item) == AnyIn(nav_keywords, lower(item.name))
\* the candidate's category is the sentinel, whatever its case and margins
CategoryUnknown(item) ==
  item.category \notin {Absent, None} /\ lower(strip(item.category)) = "unknown"

\* C10 as stated: the validator accepts exactly the candidates with a
\* non-empty name, a price above zero and no navigation keyword in the name,
\* whatever the category.
C10_ValidatorIgnoresCategory ==
  (u_fn = "_is_valid_product" /\ u_res # "") =>
    (u_res = "accept" <=>
       (NameNonEmpty(u_item) /\ PricePositive(u_item) /\ ~NameIsNavigation(u_item)))

\* C10, amended: the validator accepts exactly the candidates with a
\* non-empty name, a price above zero, no navigation keyword in the name, and
\* a category that is not "unknown" (trimmed, in any case); a price of 0 is
\* rejected and a price of 0.01 is accepted when the rest allows it.
C10_ValidatorAccepts ==
  (u_fn = "_is_valid_product" /\ u_res # "") =>
    /\ u_res = "accept" <=>
         (/\ NameNonEmpty(u_item)
          /\ PricePositive(u_item)
          /\ ~NameIsNavigation(u_item)
          /\ ~CategoryUnknown(u_item))
    /\ (u_item.price_t = "num" /\ u_item.price = 0) => u_res # "accept"
    /\ (u_item.name = "Widget" /\ u_item.price_t = "num" /\ u_item.price = 1
          /\ u_item.category = "Gadgets") => u_res = "accept"

\* a named candidate at 0.01 whose category is " unknown " was rejected
C10_Witness ==
  /\ u_fn = "_is_valid_product"
  /\ u_item.name = "Widget"
  /\ u_item.price_t = "num" /\ u_item.price = 1
  /\ u_item.category = " unknown "
  /\ u_res = "reject"

\* the candidate's title is a string that is not blank
TitleNonEmpty(item) == item.title \notin {Absent, None} /\ strip(item.title) # ""

\* C11 as stated: the book validator accepts exactly the candidates with a
\* non-empty title whose author is not the string "Unknown".
C11_BookRejectsExactSentinel ==
  (u_fn = "_is_valid_book" /\ u_res # "") =>
    (u_res = "accept" <=> (TitleNonEmpty(u_item) /\ u_item.author # "Unknown"))

\* C11, amended: the book validator accepts exactly the candidates with a
\* non-empty title whose author, trimmed and in lower case, is not "unknown";
\* the author "Unknown" is rejected, a null or absent author is accepted, and
\* so is an author that only contains the word.
C11_BookValidatorAccepts ==
  (u_fn = "_is_valid_book" /\ u_res # "") =>
    /\ u_res \in {"accept", "reject"}
    /\ u_res = "accept" <=>
         (/\ TitleNonEmpty(u_item)
          /\ u_item.author \in {Absent, None, ""}
               \/ lower(strip(u_item.author)) # "unknown")
    /\ u_item.author = "Unknown" => u_res = "reject"
    /\ (u_item.title = "Dune" /\ u_item.author \in {Absent, None, "Unknown Author"})
         => u_res = "accept"

\* a titled book whose author is "unknown" in lower case was rejected
C11_Witness ==
  /\ u_fn = "_is_valid_book"
  /\ u_item.title = "Dune"
  /\ u_item.author = "unknown"
  /\ u_res = "reject"

\* C12 as stated: a call of a validator, whatever fields of the candidate are
\* absent or null, ends with accept or reject and never raises.
C12_ValidatorsTotal ==
  (u_fn \in {"_is_valid_product", "_is_valid_book", "_is_valid_film"} /\ u_res # "") =>
    u_res \in {"accept", "reject"}

\* the logical tables with their backing collections, spelled out
TableOf ==
  <<[t |-> "CAT_REF", rows |-> product_categories],
    [t |-> "BK_CAT_REF", rows |-> book_categories],
    [t |-> "AUTH_REF", rows |-> authors],
    [t |-> "DIR_REF", rows |-> directors],
    [t |-> "PERF_REF", rows |-> actors],
    [t |-> "AWARD_REF", rows |-> award_categories],
    [t |-> "INV_MAST", rows |-> products],
    [t |-> "BK_CATALOG", rows |-> books],
    [t |-> "MEDIA_MAST", rows |-> films],
    [t |-> "BK_CAT_XREF", rows |-> book_category_bridges],
    [t |-> "MEDIA_PERF_XREF", rows |-> film_actor_bridges],
    [t |-> "MEDIA_AWD_XREF", rows |-> film_award_bridges],
    [t |-> "INV_VAR", rows |-> product_variants],
    [t |-> "INV_REV", rows |-> product_reviews],
    [t |-> "INV_SIM", rows |-> similar_products]>>

\* the mapping tables has a table exactly for the non-empty collections, with
\* one row per element
OneTablePerNonEmpty(tables) ==
  /\ DOMAIN tables \subseteq {TableOf[k].t : k \in 1..Len(TableOf)}
  /\ \A k \in 1..Len(TableOf) :
       /\ TableOf[k].t \in DOMAIN tables <=> TableOf[k].rows # <<>>
       /\ TableOf[k].t \in DOMAIN tables =>
            Len(tables[TableOf[k].t]) = Len(TableOf[k].rows)
  /\ (\A k \in 1..Len(TableOf) : TableOf[k].rows = <<>>) => DOMAIN tables = {}

\* C13: in every state of a run, to_dataframes called there returns a table
\* for a name exactly when its collection is non-empty, with one row per
\* element, and nothing for an empty store; export_to_csv returns one path per
\* such table, so none for an empty store; the tables main() got are these.
C13_TablesForNonEmptyCollections ==
  /\ OneTablePerNonEmpty(to_dataframes)
  /\ DOMAIN export_to_csv = DOMAIN to_dataframes
  /\ m_tables # NoTables => (m_tables = to_dataframes /\ OneTablePerNonEmpty(m_tables))

\* main() got the tables of a run that stored a product with reviews and no
\* book: three actors' rows, no book table
C13_Witness ==
  /\ m_tables # NoTables
  /\ "INV_MAST" \in DOMAIN m_tables
  /\ "INV_REV" \in DOMAIN m_tables
  /\ "BK_CATALOG" \notin DOMAIN m_tables
  /\ "PERF_REF" \in DOMAIN m_tables
  /\ Len(m_tables["PERF_REF"]) = 3

\* main() got the empty mapping of an empty store
C13_WitnessEmpty ==
  /\ m_tables # NoTables
  /\ DOMAIN m_tables = {}
  /\ DOMAIN export_to_csv = {}

\* how a pipeline in state pc with exception exc has ended, "" if it has not:
\* normally, by the gate's error, or by another exception that left it
Outcome(pc, exc) ==
  CASE pc = "done" /\ exc = "none" -> "completed"
    [] pc = "raised" /\ exc = "gate" -> "gate"
    [] pc = "raised" /\ exc \notin {"none", "gate"} -> "failed"
    [] OTHER -> ""

\* C14: when run_all has returned, each of the three pipelines has ended, in
\* one of the three outcomes (completed, aborted by the gate, failed with a
\* captured exception); and the tables are made only after run_all returned.
C14_ReturnAfterAllEnded ==
  /\ r_pc = "returned" =>
       /\ Outcome(p_pc, p_exc) \in {"completed", "gate", "failed"}
       /\ Outcome(b_pc, b_exc) \in {"completed", "gate", "failed"}
       /\ Outcome(f_pc, f_exc) \in {"completed", "gate", "failed"}
       /\ ~r_raised
  /\ m_tables # NoTables => r_pc = "returned"

\* run_all returned and the tables were made after products completed, books
\* was aborted by its gate and films failed to open its crawler
C14_Witness ==
  /\ r_pc = "returned"
  /\ m_tables # NoTables
  /\ Outcome(p_pc, p_exc) = "completed"
  /\ Outcome(b_pc, b_exc) = "gate"
  /\ Outcome(f_pc, f_exc) = "failed"

\* C15: without a credential the selector is deterministic-only: it issues no
\* extraction call for the container, it returns (it does not raise), and its
\* candidate is exactly what the CSS extractor returned, a record or none.
C15_DeterministicOnly ==
  (u_fn \in {"select_product", "select_book"} /\ u_res # "" /\ ~llm_api_key) =>
    /\ u_res = "return"
    /\ u_item.calls = 0
    /\ u_item.candidate =
         IF u_fn = "select_product"
         THEN _extract_product_css(u_item.container, PUuid(1))
         ELSE _extract_book_css(u_item.container)

\* a product container the CSS extractor fails on and the service would have
\* answered, selected without a credential: no call, no record
C15_Witness ==
  /\ u_fn = "select_product"
  /\ ~llm_api_key
  /\ u_res = "return"
  /\ u_item.container.llm # NoRecord
  /\ u_item.calls = 0
  /\ u_item.candidate = NoRecord

\* the value the merge rule of the statement gives a text field: the CSS value
\* when it is non-empty, otherwise the value of the service (when it has one)
PreferDeterministic(css_v, llm_v) ==
  IF Truthy(css_v) THEN css_v ELSE IF llm_v = Absent THEN css_v ELSE llm_v

\* C16: when the CSS extractor and the extraction service both return a record
\* for a container, every schema field of the merged candidate holds the CSS
\* value if that is non-empty and the value of the service otherwise.
C16_MergePrefersDeterministic ==
  (/\ u_fn = "select_book"
   /\ u_res = "return"
   /\ llm_api_key
   /\ _extract_book_css(u_item.container) # NoRecord
   /\ u_item.container.llm # NoRecord) =>
    LET css == _extract_book_css(u_item.container)
        llm == u_item.container.llm
        merged == u_item.candidate
    IN  /\ \A f \in {"title", "price", "author", "availability", "description", "book_url"} :
             merged[f] = PreferDeterministic(css[f], llm[f])
        /\ merged.categories = IF css.categories # <<>> THEN css.categories ELSE llm.categories
        /\ merged.rating = css.rating

\* C17: every accepted product is enriched whether or not the extraction
\* service is available: the step that creates the product issues the fetch of
\* its detail page and hands the product to the enricher, whose CSS fallback
\* then records the variants and reviews of the markup.
C17_EveryProductEnriched ==
  [][Len(products') > Len(products) =>
       /\ p_pc' = "detail"
       /\ p_cur' = products'[Len(products')].inv_id
       /\ p_fetches' = p_fetches + 1]_vars

\* id is parent_KIND_index for an index below n
ScopedId(id, parent, KIND, n) ==
  \E idx \in 0..(n - 1) : id = parent \o "_" \o KIND \o "_" \o ToString(idx)

PairwiseDistinct(ids) ==
  \A i, j \in 1..Len(ids) : i # j => ids[i] # ids[j]

\* C18: every variant, review and similar product recorded by the enricher has
\* the identifier parent_KIND_index of its product and its position, and the
\* identifiers of one kind are pairwise distinct.
C18_SubRecordIds ==
  /\ \A k \in 1..Len(product_variants) :
       ScopedId(product_variants[k].var_id, product_variants[k].inv_id, "VAR",
                Len(product_variants))
  /\ \A k \in 1..Len(product_reviews) :
       ScopedId(product_reviews[k].rev_id, product_reviews[k].inv_id, "REV",
                Len(product_reviews))
  /\ \A k \in 1..Len(similar_products) :
       StartsWith(similar_products[k].sim_id, similar_products[k].inv_id \o "_")
  /\ PairwiseDistinct([k \in 1..Len(product_variants) |-> product_variants[k].var_id])
  /\ PairwiseDistinct([k \in 1..Len(product_reviews) |-> product_reviews[k].rev_id])
  /\ PairwiseDistinct([k \in 1..Len(similar_products) |-> similar_products[k].sim_id])

\* C19: whatever the enrichment of a product ends in (the fetch raising, an
\* answer without usable data, a review that pydantic rejects), the page loop
\* goes on: no error is recorded and the pipeline neither raises nor breaks,
\* the items left on the page stay queued for creation and enrichment, and
\* after the last item the next page is fetched.
C19_EnricherFailureContained ==
  [][(p_pc = "detail" /\ p_pc' # "detail") =>
       /\ p_err' = p_err
       /\ p_queue' = p_queue
       /\ Len(products') = Len(products)
       /\ IF p_queue # <<>>
          THEN p_pc' = "items" /\ p_page' = p_page /\ p_exc' = p_exc
          ELSE /\ p_page' = p_page + 1
               /\ p_page' <= max_pages => (p_pc' = "fetch" /\ p_fetches' = p_fetches + 1
                                             /\ p_exc' = p_exc)]_vars

\* two products of page 1: the enrichment of the first stopped at a review
\* that pydantic rejects (its first review is stored, its similar products are
\* not), the second was created and enriched after it, page 2 is being fetched
C19_Witness ==
  /\ Len(products) = 2
  /\ products[1].inv_id # products[2].inv_id
  /\ \E k \in 1..Len(product_reviews) : product_reviews[k].inv_id = products[1].inv_id
  /\ \A k \in 1..Len(similar_products) : similar_products[k].inv_id # products[1].inv_id
  /\ \E k \in 1..Len(similar_products) : similar_products[k].inv_id = products[2].inv_id
  /\ p_pc = "fetch"
  /\ p_page = 2
  /\ ~p_err

\* a listing page of the products source answered without content or without
\* containers (nothing found, no error): nothing is stored, nothing more is
\* fetched, and only the skip-rate gate can still make the pipeline raise
ProductsEmptyUnitEnds ==
  (p_pc = "fetch" /\ p_pc' # "fetch" /\ p_found' = p_found /\ p_err' = p_err) =>
    /\ products' = products
    /\ p_fetches' = p_fetches
    /\ p_pc' \in {"done", "raised"}
    /\ p_pc' = "raised" => p_exc' = "gate"

\* the same for a listing page of the books source
BooksEmptyUnitEnds ==
  (b_pc = "fetch" /\ b_pc' # "fetch" /\ b_found' = b_found /\ b_err' = b_err) =>
    /\ books' = books
    /\ b_fetches' = b_fetches
    /\ b_pc' \notin {"fetch", "items", "detail"}
    /\ b_pc' = "raised" => b_exc' = "gate"

\* the same for a year of the films source whose AJAX answer has no content
\* or no films
FilmsEmptyUnitEnds ==
  (f_pc = "ajax" /\ f_pc' # "ajax" /\ f_found' = f_found /\ f_err' = f_err) =>
    /\ films' = films
    /\ f_fetches' = f_fetches
    /\ f_pc' \in {"done", "raised"}
    /\ f_pc' = "raised" => f_exc' = "gate"

\* C20: in each of the three sources a unit (listing page, year) that comes
\* back without content or without containers contributes no record and is the
\* end of the data: no later unit of the source is fetched, and the pipeline
\* does not raise because of it.
C20_EmptyUnitEndsSource ==
  [][ProductsEmptyUnitEnds /\ BooksEmptyUnitEnds /\ FilmsEmptyUnitEnds]_vars

\* C21: the scratch file made for an extraction call is removed before the
\* call is left on every exit path (normal return, the extraction call
\* raising, the write of the file raising): no scratch file is left.
C21_NoScratchFileLeft ==
  (u_fn = "scratch_file" /\ u_res # "") => u_item.result.left = 0

\* the candidates of a first page with the two containers of the scenario: one
\* yielding Widget, 9.99, Gadgets and one yielding an empty name
ScenarioData ==
  ExtractProducts(FilterContainers(<<PC_Widget, PC_NoName>>), 1, llm_api_key,
                  [data |-> <<>>, failed |-> <<>>, raised |-> FALSE, uuid |-> 0]).data

\* page 1 was the scenario's page and its items are about to be processed
ScenarioFed ==
  /\ p_pc = "items"
  /\ p_page = 1
  /\ products = <<>>
  /\ p_found = 2
  /\ p_extracted = 1
  /\ p_queue = ScenarioData

\* C22: the page with the Widget container and the container with an empty
\* name gives one candidate, found = 2 and accepted = 1; processing it makes
\* exactly one Product and the one category entry (CAT_0001, Gadgets); when
\* the pipeline ends with these counts there is still one product and one
\* category, and the skip rate is 50%.
C22_WidgetScenario ==
  /\ [](ScenarioData = <<Item("Widget", "num", 999, "Gadgets", "1")>>)
  /\ [][ScenarioFed =>
          /\ Len(products') = 1
          /\ products'[1].inv_nm = "Widget"
          /\ products'[1].unit_prc = 999
          /\ products'[1].cat_cd = "CAT_0001"
          /\ product_categories' = <<[cd |-> "CAT_0001", nm |-> "Gadgets"]>>
          /\ p_found' = 2 /\ p_extracted' = 1]_vars
  /\ []((/\ p_pc \in {"done", "raised"}
         /\ p_found = 2 /\ p_extracted = 1
         /\ products # <<>> /\ products[1].inv_nm = "Widget") =>
          /\ Len(products) = 1
          /\ product_categories = <<[cd |-> "CAT_0001", nm |-> "Gadgets"]>>
          /\ 100 * (p_found - p_extracted) = 50 * p_found)

\* the scenario run to its end: one Widget product, one category, 2 found and
\* 1 accepted
C22_Witness ==
  /\ p_pc \in {"done", "raised"}
  /\ p_page = 2
  /\ p_found = 2 /\ p_extracted = 1
  /\ Len(products) = 1 /\ products[1].inv_nm = "Widget" /\ products[1].cat_cd = "CAT_0001"
  /\ product_categories = <<[cd |-> "CAT_0001", nm |-> "Gadgets"]>>

\* a step of scrape_products, of scrape_books, of scrape_films on the pages
\* served when they run together; each leaves everything else unchanged
ProductsStep ==
  \/ PStart \/ PCrawlerFail \/ PFetchFail \/ PFetchPage(AllProductKinds, MaxItemsAll)
  \/ PItem \/ PDetail(AllDetailAnswers)

BooksStep ==
  \/ BStart \/ BCrawlerFail \/ BFetchFail \/ BFetchPage(AllBookKinds, MaxItemsAll)
  \/ BItem \/ BDetail(AllBookAnswers)

FilmsStep ==
  \/ FStart \/ FCrawlerFail \/ FMainFail \/ FMain(AllMainAnswers) \/ FAjaxFail
  \/ FAjax(AllFilmKinds, MaxItemsAll)

C24_RatingsInRange ==
  /\ \A k \in 1..Len(books) : books[k].rtg_val \in 1..5
  /\ \A k \in 1..Len(product_reviews) : product_reviews[k].rtg_val \in 1..5

\* the enricher got a review rated 5 and then one rated 10 (the CSS fallback
\* answer, which has no similar products): the first is stored, the second is
\* not, and the pipeline has gone on
C24_Witness ==
  /\ Len(products) = 1
  /\ product_variants # <<>>
  /\ similar_products = <<>>
  /\ Len(product_reviews) = 1
  /\ product_reviews[1].rtg_val = 5
  /\ p_pc \in {"fetch", "items"}

\* the layer of a table: 1 dimension, 2 fact, 3 bridge, 4 detail
Layer(t) ==
  CHOOSE l \in 1..4 : \E k \in 1..Len(table_layers[l]) : table_layers[l][k] = t

InLayerOrder(issued) ==
  \A i, j \in 1..Len(issued) : i < j => Layer(issued[i]) <= Layer(issued[j])

KnownTables == UNION {{table_layers[l][k] : k \in 1..Len(table_layers[l])} : l \in 1..4}

\* C25: create_all_tables issues the statements of the dimension tables, then
\* of the fact tables, then of the bridge tables, then of the detail tables
\* (all fifteen when none fails); load_all_data loads the tables of its input,
\* each once, in the same order of layers, and a table that is absent from
\* the input is skipped without an error.
C25_DependencyOrder ==
  /\ (u_fn = "create_all_tables" /\ u_res # "") =>
       /\ InLayerOrder(u_item.issued)
       /\ u_res = "return" =>
            {u_item.issued[k] : k \in 1..Len(u_item.issued)} = KnownTables
  /\ (u_fn = "load_all_data" /\ u_res # "") =>
       /\ InLayerOrder(u_item.issued)
       /\ \A i, j \in 1..Len(u_item.issued) : i # j => u_item.issued[i] # u_item.issued[j]
       /\ {u_item.issued[k] : k \in 1..Len(u_item.issued)} \subseteq u_item.input.dataframes
       /\ u_item.input.fail_at = 0 =>
            /\ u_res = "return"
            /\ {u_item.issued[k] : k \in 1..Len(u_item.issued)}
                 = u_item.input.dataframes \cap KnownTables

\* an input with a detail table, a fact table and a dimension table loaded in
\* the order dimension, fact, detail; the bridge tables are absent
C25_Witness ==
  /\ u_fn = "load_all_data"
  /\ u_res = "return"
  /\ u_item.input.dataframes = {"INV_SIM", "INV_MAST", "CAT_REF"}
  /\ u_item.issued = <<"CAT_REF", "INV_MAST", "INV_SIM">>

\* One step seen from a pipeline with control state pc, recorded exception exc
\* and counters found, extracted, fetches (primed copies: pc2, ...).  While
\* the units are scanned the gate does not act and the counters only grow; the
\* step that ends the scan gives the verdict of the gate on the counters as
\* they are after that step; after it nothing changes any more.
GateOnce(pc, pc2, exc, exc2, found, found2, extracted, extracted2, fetches, fetches2) ==
  /\ found2 >= found /\ extracted2 >= extracted
  /\ ~Ended(pc2) => exc2 = "none"
  /\ (~Ended(pc) /\ Ended(pc2) /\ exc2 # "crawler") =>
       /\ (pc2 = "raised") = _check_skip_rate(found2, extracted2)
       /\ exc2 = IF _check_skip_rate(found2, extracted2) THEN "gate" ELSE "none"
  /\ Ended(pc) =>
       pc2 = pc /\ exc2 = exc /\ found2 = found /\ extracted2 = extracted /\ fetches2 = fetches

C27_FactsAppendOnly ==
  [][/\ Len(products') >= Len(products)
     /\ \A k \in 1..Len(products) :
          \/ products'[k] = products[k]
          \/ /\ p_pc = "detail"
             /\ k = Len(products)
             /\ products'[k] = [products[k] EXCEPT !.desc_txt = products'[k].desc_txt]
     /\ IsPrefix(books, books')
     /\ IsPrefix(films, films')]_vars

Rows(t) == IF t \in DOMAIN m_tables THEN Len(m_tables[t]) ELSE 0

\* C28: the tables produced after an invocation of run_all hold only records
\* discovered during that invocation, also when it is the second invocation
\* on the same object: a fact table has no more rows than items were accepted
\* in the invocation, and a dimension that got no entry in the invocation is
\* absent.
C28_FreshStorePerRun ==
  m_tables # NoTables =>
    /\ Rows("INV_MAST") <= p_extracted
    /\ Rows("BK_CATALOG") <= b_extracted
    /\ Rows("MEDIA_MAST") <= f_extracted
    /\ p_extracted = 0 => Rows("CAT_REF") = 0
    /\ b_extracted = 0 => Rows("AUTH_REF") = 0
    /\ f_extracted = 0 => Rows("DIR_REF") = 0

Codes(dim) == {dim[k].cd : k \in 1..Len(dim)}

\* C29: in every reachable state the code a fact carries is the code of an
\* entry of its dimension (product: category; book: author; film: director
\* and award), and every bridge row joins a stored fact to an existing
\* dimension entry.
C29_ReferentialIntegrity ==
  /\ \A k \in 1..Len(products) : products[k].cat_cd \in Codes(product_categories)
  /\ \A k \in 1..Len(books) : books[k].auth_cd \in Codes(authors)
  /\ \A k \in 1..Len(films) :
       /\ films[k].dir_cd \in Codes(directors)
       /\ films[k].awd_cat_cd \in Codes(award_categories)
  /\ \A k \in 1..Len(book_category_bridges) :
       /\ \E j \in 1..Len(books) : books[j].bk_id = book_category_bridges[k].bk_id
       /\ book_category_bridges[k].bk_cat_cd \in Codes(book_categories)
  /\ \A k \in 1..Len(film_actor_bridges) :
       /\ \E j \in 1..Len(films) : films[j].media_id = film_actor_bridges[k].media_id
       /\ film_actor_bridges[k].perf_cd \in Codes(actors)
  /\ \A k \in 1..Len(film_award_bridges) :
       /\ \E j \in 1..Len(films) : films[j].media_id = film_award_bridges[k].media_id
       /\ film_award_bridges[k].awd_cat_cd \in Codes(award_categories)

\* the films pipeline after a year whose processing raised: films, their
\* dimension entries and their bridge rows are stored
C29_Witness ==
  /\ f_err
  /\ films # <<>>
  /\ film_actor_bridges # <<>>
  /\ film_award_bridges # <<>>
  /\ Len(directors) >= 1

\* One step of a paged pipeline (control state pc, page, queue of the items
\* left on the page, error flag err; primed copies pc2, ...): the page number
\* moves only by one, at the start or when the last item of the page is done;
\* a page that yields no item to process, and any error, ends the loop.
PageLoop(pc, pc2, page, page2, queue2, err, err2) ==
  /\ page2 = page \/ page2 = page + 1
  /\ page2 = page + 1 =>
       \/ pc = "idle" /\ page2 = 1
       \/ pc \in {"items", "detail"} /\ queue2 = <<>> /\ err2 = err
  /\ (pc = "fetch" /\ pc2 # "fetch" /\ pc2 # "items") => (Ended(pc2) /\ page2 = page)
  /\ (err2 /\ ~err) => Ended(pc2)

\* C30: a pipeline whose fetches all return terminates.  The products and the
\* books pipeline fetch listing pages 1 to at most 50, the page number moving
\* by one only when a page is fully processed, and stop at the first page
\* without an item to process or with an error; the films pipeline visits the
\* years 2010 to 2015 in increasing order, each at most once.
C30_PipelinesTerminate ==
  /\ [](p_pc \in {"fetch", "items", "detail"} => p_page \in 1..max_pages)
  /\ [](b_pc \in {"fetch", "items", "detail"} => b_page \in 1..max_pages)
  /\ [](f_pc \in {"main", "ajax"} => f_year \in first_year..last_year)
  /\ [][/\ PageLoop(p_pc, p_pc', p_page, p_page', p_queue', p_err, p_err')
        /\ PageLoop(b_pc, b_pc', b_page, b_page', b_queue', b_err, b_err')
        /\ \/ f_year' = f_year
           \/ f_pc = "idle" /\ f_year' = first_year
           \/ f_pc \in {"main", "ajax"} /\ f_year' = f_year + 1]_vars
  /\ <>(Ended(p_pc) \/ Ended(b_pc) \/ Ended(f_pc))

\* the products source never ran dry: page 50 was processed and the loop
\* ended by its page limit, with one product per page
C30_Witness ==
  /\ p_pc = "done"
  /\ p_page = max_pages + 1
  /\ Len(products) = max_pages
  /\ ~p_err


====
